---- MODULE Spec2Model ----
(***************************************************************************)
(* A model of pgtricks: the field-aware comparator linecomp               *)
(* (pgtricks/pg_dump_splitsort.py) and the external merge sort MergeSort  *)
(* (pgtricks/mergesort.py).                                                *)
(*                                                                         *)
(* A line is a sequence of one-character strings; Ord gives the code      *)
(* point Python's string comparison uses.  Cursors into a line are        *)
(* 0-based as in the source; At(l, p) is l[p].                            *)
(***************************************************************************)
EXTENDS Integers, Sequences, FiniteSets, TLC

\* ------------------------------------------------------------------------
\* Characters and strings
\* ------------------------------------------------------------------------

\* The characters the model's lines are made of.
Chars == {"\t", "\n", "-", ".", "0", "1", "2", "3", "4", "5", "6", "7", "8",
          "9", "N", "\\", "a", "b", "f", "o", "r", "z"}

\* Code point of a character (Python compares str by code point).
Ord(c) ==
    CASE c = "\t" -> 9   [] c = "\n" -> 10  [] c = "-" -> 45  [] c = "." -> 46
      [] c = "0" -> 48   [] c = "1" -> 49   [] c = "2" -> 50  [] c = "3" -> 51
      [] c = "4" -> 52   [] c = "5" -> 53   [] c = "6" -> 54  [] c = "7" -> 55
      [] c = "8" -> 56   [] c = "9" -> 57   [] c = "N" -> 78  [] c = "\\" -> 92
      [] c = "a" -> 97   [] c = "b" -> 98   [] c = "f" -> 102 [] c = "o" -> 111
      [] c = "r" -> 114  [] c = "z" -> 122

\* '0123456789' of linecomp's digit scans.
Digits == {"0", "1", "2", "3", "4", "5", "6", "7", "8", "9"}

\* l[p] with Python's 0-based index.
At(l, p) == l[p + 1]

\* l[a:b] for 0 <= a and b <= len(l).
Slice(l, a, b) == IF b <= a THEN <<>> ELSE SubSeq(l, a + 1, b)

\* A comparison that has lost its "less than" case: a smaller text passes
\* for an equal one.
RECURSIVE StrCmp_greaterOnly(_, _)
StrCmp_greaterOnly(s, t) ==
    IF s = <<>> THEN 0
    ELSE IF t = <<>> THEN 1
    ELSE IF Ord(Head(s)) > Ord(Head(t)) THEN 1
    ELSE IF Ord(Head(s)) < Ord(Head(t)) THEN 0
    ELSE StrCmp_greaterOnly(Tail(s), Tail(t))

\* Python's str comparison s > t / s < t: 1, -1 or 0 by code points, a proper
\* prefix being the smaller.
RECURSIVE StrCmp(_, _)
StrCmp(s, t) ==
    IF s = <<>> THEN (IF t = <<>> THEN 0 ELSE -1)
    ELSE IF t = <<>> THEN 1
    ELSE IF Ord(Head(s)) > Ord(Head(t)) THEN 1
    ELSE IF Ord(Head(s)) < Ord(Head(t)) THEN -1
    ELSE StrCmp(Tail(s), Tail(t))

\* ------------------------------------------------------------------------
\* linecomp (pgtricks/pg_dump_splitsort.py)
\* ------------------------------------------------------------------------

\* What linecomp's "raise RuntimeError('Infinite loop in linecomp')" yields.
RuntimeError == 2

\* while p < len(l) and l[p] == "0": p += 1
RECURSIVE SkipZeros(_, _)
SkipZeros(l, p) ==
    IF p < Len(l) /\ At(l, p) = "0" THEN SkipZeros(l, p + 1) ELSE p

\* The value of d after "d = p; for d in range(p, len(l)): if l[d] not in
\* '0123456789': break": the index of the first non-digit at or after p; when
\* the digits run to the end of l the loop ends without break and leaves d at
\* the LAST index, len(l) - 1; when the range is empty d stays p.
RECURSIVE ScanDigits(_, _)
ScanDigits(l, d) ==
    IF At(l, d) \notin Digits THEN d
    ELSE IF d + 1 >= Len(l) THEN d
    ELSE ScanDigits(l, d + 1)

DigitEnd(l, p) == IF p >= Len(l) THEN p ELSE ScanDigits(l, p)

\* A fractional-part loop that is skipped and hands back the cursors of the
\* decimal points instead of the ones behind them.
FracLoop_fromPoint(l1, l2, p1, p2, l1_larger) ==
    [ret |-> FALSE, val |-> 0, p1 |-> p1 - 1, p2 |-> p2 - 1]

\* The fractional-part loop (while not next_field and p1 < len(l1) and
\* p2 < len(l2)).  Yields [ret |-> TRUE, val |-> r] when the loop returns r,
\* and [ret |-> FALSE, p1 |-> .., p2 |-> ..] when it ends and control goes
\* back to the top of the main loop.
RECURSIVE FracLoop(_, _, _, _, _)
FracLoop(l1, l2, p1, p2, l1_larger) ==
    IF ~(p1 < Len(l1) /\ p2 < Len(l2))
    THEN [ret |-> FALSE, val |-> 0, p1 |-> p1, p2 |-> p2]
    ELSE IF At(l1, p1) = "\t"
    THEN IF At(l2, p2) = "\t"
         THEN [ret |-> FALSE, val |-> 0, p1 |-> p1 + 1, p2 |-> p2 + 1]
         ELSE [ret |-> TRUE, val |-> -l1_larger, p1 |-> p1, p2 |-> p2]
    ELSE IF At(l2, p2) = "\t"
    THEN [ret |-> TRUE, val |-> l1_larger, p1 |-> p1, p2 |-> p2]
    ELSE IF Ord(At(l1, p1)) > Ord(At(l2, p2))
    THEN [ret |-> TRUE, val |-> l1_larger, p1 |-> p1, p2 |-> p2]
    ELSE IF Ord(At(l1, p1)) < Ord(At(l2, p2))
    THEN [ret |-> TRUE, val |-> -l1_larger, p1 |-> p1, p2 |-> p2]
    ELSE FracLoop(l1, l2, p1 + 1, p2 + 1, l1_larger)

\* One pass of the body of linecomp's "while True" behind the RuntimeError
\* check, from cursors (p1, p2).  Yields [ret |-> TRUE, val |-> r] when the
\* pass returns r, and [ret |-> FALSE, p1 |-> .., p2 |-> ..] when it goes
\* back to the top of the loop with new cursors.
LinePass(l1, l2, p1, p2) ==
    IF p1 >= Len(l1)
    THEN [ret |-> TRUE, val |-> IF p2 >= Len(l2) THEN 0 ELSE -1, p1 |-> p1, p2 |-> p2]
    ELSE IF p2 >= Len(l2) THEN [ret |-> TRUE, val |-> 1, p1 |-> p1, p2 |-> p2]
    ELSE IF At(l1, p1) = "-" /\ At(l2, p2) # "-"
    THEN [ret |-> TRUE, val |-> -1, p1 |-> p1, p2 |-> p2]
    ELSE IF At(l1, p1) # "-" /\ At(l2, p2) = "-"
    THEN [ret |-> TRUE, val |-> 1, p1 |-> p1, p2 |-> p2]
    ELSE
      LET neg       == At(l1, p1) = "-"
          l1_larger == IF neg THEN -1 ELSE 1
          q1        == SkipZeros(l1, IF neg THEN p1 + 1 ELSE p1)
          q2        == SkipZeros(l2, IF neg THEN p2 + 1 ELSE p2)
          d1        == DigitEnd(l1, q1)
          d2        == DigitEnd(l2, q2)
          digits    == StrCmp(Slice(l1, q1, d1), Slice(l2, q2, d2))
          return(v) == [ret |-> TRUE, val |-> v, p1 |-> q1, p2 |-> q2]
      IN  IF d1 - q1 > d2 - q2 THEN return(l1_larger)
          ELSE IF d1 - q1 < d2 - q2 THEN return(-l1_larger)
          ELSE IF digits > 0 THEN return(l1_larger)
          ELSE IF digits < 0 THEN return(-l1_larger)
          ELSE IF d1 >= Len(l1)
               THEN return(IF d2 >= Len(l2) THEN 0 ELSE -l1_larger)
          ELSE IF d2 >= Len(l2) THEN return(l1_larger)
          ELSE IF Ord(At(l1, d1)) > Ord(At(l2, d2)) THEN return(l1_larger)
          ELSE IF Ord(At(l1, d1)) < Ord(At(l2, d2)) THEN return(-l1_larger)
          ELSE IF At(l1, d1) # "."
               THEN [ret |-> FALSE, val |-> 0, p1 |-> d1 + 1, p2 |-> d2 + 1]
          ELSE FracLoop(l1, l2, d1 + 1, d2 + 1, l1_larger)

\* linecomp's "while True" from cursors (p1, p2), with (prev_p1, prev_p2)
\* the cursors of the pass before (-1 for None).
RECURSIVE LineLoop(_, _, _, _, _, _)
LineLoop(l1, l2, p1, p2, prev_p1, prev_p2) ==
    IF p1 = prev_p1 /\ p2 = prev_p2 THEN RuntimeError
    ELSE LET r == LinePass(l1, l2, p1, p2)
         IN  IF r.ret THEN r.val
             ELSE LineLoop(l1, l2, r.p1, r.p2, p1, p2)

linecomp(l1, l2) == LineLoop(l1, l2, 0, 0, -1, -1)

\* ------------------------------------------------------------------------
\* Sorting with linecomp as the key
\* ------------------------------------------------------------------------

\* An insertion that puts x before the elements it compares equal to: the
\* step of a sort that is not stable.
RECURSIVE InsertSorted_beforeEqual(_, _)
InsertSorted_beforeEqual(s, x) ==
    IF s = <<>> THEN <<x>>
    ELSE IF linecomp(x, s[Len(s)]) <= 0
         THEN Append(InsertSorted_beforeEqual(SubSeq(s, 1, Len(s) - 1), x), s[Len(s)])
         ELSE Append(s, x)

\* Insert x into the sorted list s behind every element that does not compare
\* greater than x (the place a stable sort with key cmp_to_key(linecomp)
\* gives the later of two elements).
RECURSIVE InsertSorted(_, _)
InsertSorted(s, x) ==
    IF s = <<>> THEN <<x>>
    ELSE IF linecomp(x, s[Len(s)]) < 0
         THEN Append(InsertSorted(SubSeq(s, 1, Len(s) - 1), x), s[Len(s)])
         ELSE Append(s, x)

\* list.sort(key=cmp_to_key(linecomp)): a stable sort of the list.
RECURSIVE ListSort(_)
ListSort(lines) ==
    IF lines = <<>> THEN <<>>
    ELSE InsertSorted(ListSort(SubSeq(lines, 1, Len(lines) - 1)),
                      lines[Len(lines)])

\* pgtricks._tsv_sort.sort_lines: the lines sorted with the comparator, equal
\* lines kept in their order.
sort_lines(lines) == ListSort(lines)

\* ------------------------------------------------------------------------
\* Partition files: binary temporary files
\* ------------------------------------------------------------------------

\* The character of a byte below 128 (the inverse of Ord on Chars).
Chr(b) == CHOOSE c \in Chars : Ord(c) = b

\* line.encode("UTF-8") of ASCII text: one byte per character.
encode(line) == [i \in 1..Len(line) |-> Ord(line[i])]

\* bytes.decode("UTF-8") of ASCII bytes.
decode(bytes) == [i \in 1..Len(bytes) |-> Chr(bytes[i])]

\* TemporaryFile(mode="w+b"): an empty file positioned at its start.
TemporaryFile == [data |-> <<>>, pos |-> 0]

\* file.write(bytes) at the file position.
write(f, bytes) ==
    [data |-> SubSeq(f.data, 1, f.pos) \o bytes
              \o SubSeq(f.data, f.pos + Len(bytes) + 1, Len(f.data)),
     pos  |-> f.pos + Len(bytes)]

\* file.writelines(line.encode("UTF-8") for line in lines): the encoded
\* lines one after the other, nothing added between them.
RECURSIVE writelines(_, _)
writelines(f, lines) ==
    IF lines = <<>> THEN f
    ELSE writelines(write(f, encode(Head(lines))), Tail(lines))

\* A __next__ that forgets partition.seek(0): the file stays where the
\* writes left it.
seek0_forgotten(f) == f

\* partition.seek(0)
seek0(f) == [f EXCEPT !.pos = 0]

\* The end (exclusive, 0-based) of the line that starts at byte offset p:
\* just behind the next line feed, or the end of the file.
RECURSIVE LineEnd(_, _)
LineEnd(data, p) ==
    IF p >= Len(data) THEN Len(data)
    ELSE IF data[p + 1] = 10 THEN p + 1
    ELSE LineEnd(data, p + 1)

\* One step of "for line in partition": the bytes of the next line (empty at
\* the end of the file) and the file behind it.
readline(f) ==
    LET e == LineEnd(f.data, f.pos)
    IN  [line |-> Slice(f.data, f.pos, e), file |-> [f EXCEPT !.pos = e]]

\* ------------------------------------------------------------------------
\* MergeSort (pgtricks/mergesort.py)
\* ------------------------------------------------------------------------

\* Slots allocated for a list that grew to n items by append from empty
\* (CPython's list_resize: (newsize + (newsize >> 3) + 6) & ~3).
RECURSIVE Allocated(_)
Allocated(n) ==
    IF n = 0 THEN 0
    ELSE IF n <= Allocated(n - 1) THEN Allocated(n - 1)
    ELSE ((n + (n \div 8) + 6) \div 4) * 4

\* sys.getsizeof(self._buffer) on 64-bit CPython.
getsizeof_list(buffer) == 56 + 8 * Allocated(Len(buffer))

\* sys.getsizeof(line) of an ASCII str on 64-bit CPython.
getsizeof_str(line) == 49 + Len(line)

\* self._iterating = None
None == [kind |-> "None"]

\* A truth value that is false again once nothing is left, as it would be
\* were _iterating a list of the remaining lines.
Truthy_whileLeft(iterating) ==
    \/ iterating.kind = "list" /\ iterating.index < Len(iterating.items)
    \/ iterating.kind = "merge" /\ ~iterating.done

\* Python's truth value of self._iterating: None is false; a list iterator
\* and a generator are true, exhausted or not.
Truthy(iterating) == iterating.kind # "None"

\* A _flush that writes the buffer as it is, without sorting it.
_flush_unsorted(m) ==
    [m EXCEPT !.partitions = IF m.buffer # <<>>
                             THEN Append(@, writelines(TemporaryFile, m.buffer))
                             ELSE @,
              !.buffer = <<>>,
              !.memory_counter = getsizeof_list(<<>>)]

\* A _flush that puts the new partition in front of the earlier ones.
_flush_newestFirst(m) ==
    [m EXCEPT !.partitions = IF m.buffer # <<>>
                             THEN <<writelines(TemporaryFile,
                                               sort_lines(m.buffer))>> \o @
                             ELSE @,
              !.buffer = <<>>,
              !.memory_counter = getsizeof_list(<<>>)]

\* A _flush without the test of the buffer: a partition is written even
\* when nothing is buffered.
_flush_always(m) ==
    [m EXCEPT !.partitions = Append(@, writelines(TemporaryFile,
                                                  sort_lines(m.buffer))),
              !.buffer = <<>>,
              !.memory_counter = getsizeof_list(<<>>)]

\* A _flush that resets the counter to zero instead of the size of the
\* empty list.
_flush_zero(m) ==
    [m EXCEPT !.partitions = IF m.buffer # <<>>
                             THEN Append(@, writelines(TemporaryFile,
                                                       sort_lines(m.buffer)))
                             ELSE @,
              !.buffer = <<>>,
              !.memory_counter = 0]

\* _flush: a non-empty buffer is sorted and written to a new partition; the
\* buffer is replaced by an empty list and the counter reset to its size.
_flush(m) ==
    LET written ==
          IF m.buffer # <<>>
          THEN Append(m.partitions,
                      writelines(TemporaryFile, sort_lines(m.buffer)))
          ELSE m.partitions
    IN  [m EXCEPT !.partitions = written,
                  !.buffer = <<>>,
                  !.memory_counter = getsizeof_list(<<>>)]

\* MergeSort(max_memory=max_memory): the object __init__ leaves.
__init__(max_memory) ==
    _flush([max_memory     |-> max_memory,
            partitions     |-> <<>>,
            iterating      |-> None,
            buffer         |-> <<>>,
            memory_counter |-> getsizeof_list(<<>>)])

\* An append that counts the growth of the list but not the size of the
\* line.
append_uncounted(m, line) ==
    IF Truthy(m.iterating)
    THEN [obj |-> m, res |-> "ValueError"]
    ELSE LET buffer  == Append(m.buffer, line)
             counter == m.memory_counter - getsizeof_list(m.buffer)
                        + getsizeof_list(buffer)
             m1      == [m EXCEPT !.buffer = buffer,
                                  !.memory_counter = counter]
         IN  [obj |-> IF counter >= m.max_memory THEN _flush(m1) ELSE m1,
              res |-> "None"]

\* An append that flushes only when the counter exceeds the ceiling.
append_aboveOnly(m, line) ==
    IF Truthy(m.iterating)
    THEN [obj |-> m, res |-> "ValueError"]
    ELSE LET buffer  == Append(m.buffer, line)
             counter == m.memory_counter - getsizeof_list(m.buffer)
                        + getsizeof_list(buffer) + getsizeof_str(line)
             m1      == [m EXCEPT !.buffer = buffer,
                                  !.memory_counter = counter]
         IN  [obj |-> IF counter > m.max_memory THEN _flush(m1) ELSE m1,
              res |-> "None"]

\* append(line): the object after the call and whether it raised.
append(m, line) ==
    IF Truthy(m.iterating)
    THEN [obj |-> m, res |-> "ValueError"]
    ELSE LET buffer  == Append(m.buffer, line)
             counter == m.memory_counter - getsizeof_list(m.buffer)
                        + getsizeof_list(buffer) + getsizeof_str(line)
             m1      == [m EXCEPT !.buffer = buffer,
                                  !.memory_counter = counter]
         IN  [obj |-> IF counter >= m.max_memory THEN _flush(m1) ELSE m1,
              res |-> "None"]

\* iter(sort_lines(self._buffer)): a list iterator at the start of the list.
list_iterator(items) == [kind |-> "list", items |-> items, index |-> 0]

\* heapq.merge(*[(line.decode("UTF-8") for line in partition) ...],
\* key=SORT_KEY): a generator that has not started.  heads[i] is the line
\* read from partition i and not yet returned (<<>>: none), resume the
\* partition whose line was returned last (0: none).
merge(partitions) ==
    [kind    |-> "merge",
     started |-> FALSE,
     done    |-> FALSE,
     heads   |-> [i \in 1..Len(partitions) |-> <<>>],
     resume  |-> 0]

\* A merge that takes, among equal keys, the line of the latest source.
MinSource_tiesLast(heads) ==
    CHOOSE i \in DOMAIN heads :
        /\ heads[i] # <<>>
        /\ \A j \in DOMAIN heads :
              (heads[j] # <<>> /\ j # i) =>
                  \/ linecomp(heads[i], heads[j]) < 0
                  \/ (linecomp(heads[i], heads[j]) = 0 /\ i > j)

\* heapq.merge called without key=SORT_KEY: the lines compared as text.
MinSource_nokey(heads) ==
    CHOOSE i \in DOMAIN heads :
        /\ heads[i] # <<>>
        /\ \A j \in DOMAIN heads :
              (heads[j] # <<>> /\ j # i) =>
                  \/ StrCmp(heads[i], heads[j]) < 0
                  \/ (StrCmp(heads[i], heads[j]) = 0 /\ i < j)

\* The source heapq.merge takes next: its heap holds [key, order, value] per
\* source, so the smallest key wins and among equal keys the lowest order.
MinSource(heads) ==
    CHOOSE i \in DOMAIN heads :
        /\ heads[i] # <<>>
        /\ \A j \in DOMAIN heads :
              (heads[j] # <<>> /\ j # i) =>
                  \/ linecomp(heads[i], heads[j]) < 0
                  \/ (linecomp(heads[i], heads[j]) = 0 /\ i < j)

\* The partitions the merge generator reads from when it runs: all of them
\* on its first run, afterwards the one it returned a line from.
MergeReads(m) ==
    IF m.iterating.done THEN {}
    ELSE IF ~m.iterating.started THEN DOMAIN m.partitions
    ELSE {m.iterating.resume}

\* The merge generator's step once it has read: rd[i] is what readline gave
\* for partition i.  It returns the smallest head, or ends.
MergeYield(m, reads, rd) ==
    LET parts == [i \in DOMAIN m.partitions |->
                    IF i \in reads THEN rd[i].file ELSE m.partitions[i]]
        heads == [i \in DOMAIN m.partitions |->
                    IF i \in reads THEN decode(rd[i].line)
                    ELSE m.iterating.heads[i]]
    IN  IF m.iterating.done \/ \A i \in DOMAIN heads : heads[i] = <<>>
        THEN [obj |-> [m EXCEPT !.partitions = parts,
                                !.iterating = [@ EXCEPT !.started = TRUE,
                                                        !.done = TRUE,
                                                        !.heads = heads,
                                                        !.resume = 0]],
              res |-> "StopIteration", val |-> <<>>]
        ELSE CHOOSE r \in
               { [obj |-> [m EXCEPT !.partitions = parts,
                                    !.iterating =
                                        [@ EXCEPT !.started = TRUE,
                                                  !.heads = [heads EXCEPT ![src] = <<>>],
                                                  !.resume = src]],
                  res |-> "line", val |-> heads[src]]
                 : src \in {MinSource(heads)} } : TRUE

\* next() on the merge generator.  On its first run it reads one line from
\* every partition; on a later run it first reads the next line of the
\* partition it returned from.
MergeNext(m) ==
    CHOOSE r \in
      { MergeYield(m, MergeReads(m), rd)
        : rd \in { [i \in DOMAIN m.partitions |-> readline(m.partitions[i])] } }
      : TRUE

\* next() on the list iterator.
ListNext(m) ==
    IF m.iterating.index < Len(m.iterating.items)
    THEN [obj |-> [m EXCEPT !.iterating.index = @ + 1],
          res |-> "line", val |-> m.iterating.items[m.iterating.index + 1]]
    ELSE [obj |-> m, res |-> "StopIteration", val |-> <<>>]

\* The rewinding and the merge of __next__: partition.seek(0) for every
\* partition, then _iterating = merge(...).
StartMerge(m) ==
    [m EXCEPT !.partitions = [i \in DOMAIN m.partitions |-> seek0(m.partitions[i])],
              !.iterating = merge(m.partitions)]

\* A first part of __next__ that merges the partitions without flushing the
\* buffer first.
Build_unflushed(m) ==
    IF Truthy(m.iterating) THEN m
    ELSE IF m.partitions # <<>>
    THEN StartMerge(m)
    ELSE [m EXCEPT !.iterating = list_iterator(sort_lines(m.buffer))]

\* A first part of __next__ without the in-memory branch: the buffer is
\* always flushed to a partition and merged.
Build_alwaysSpill(m) ==
    IF Truthy(m.iterating) THEN m
    ELSE CHOOSE r \in { StartMerge(f) : f \in {_flush(m)} } : TRUE

\* The first part of __next__: the sorted sequence is built unless
\* _iterating is true already.
Build(m) ==
    IF Truthy(m.iterating) THEN m
    ELSE IF m.partitions # <<>>
    THEN CHOOSE r \in { StartMerge(f) : f \in {_flush(m)} } : TRUE
    ELSE [m EXCEPT !.iterating = list_iterator(sort_lines(m.buffer))]

\* next(self._iterating), with whether this call built the sequence.
IterNext(m, built) ==
    CHOOSE r \in
      { [obj |-> n.obj, res |-> n.res, val |-> n.val, built |-> built]
        : n \in { IF m.iterating.kind = "merge" THEN MergeNext(m) ELSE ListNext(m) } }
      : TRUE

\* __next__: the object after the call, the line returned or StopIteration,
\* and whether the call built the sorted sequence (assigned _iterating).
__next__(m) ==
    CHOOSE r \in { IterNext(m1, ~Truthy(m.iterating)) : m1 \in {Build(m)} } : TRUE

\* An __iter__ that starts over instead of returning self as it is.
__iter___restart(m) == [m EXCEPT !.iterating = None]

\* __iter__: returns self.
__iter__(m) == m

\* ------------------------------------------------------------------------
\* State
\* ------------------------------------------------------------------------

\* sorter : the MergeSort objects of the run, a sequence of records with the
\*          fields max_memory, partitions, iterating, buffer, memory_counter
\* hist   : per object, what its caller has seen: the lines it appended, the
\*          lines __next__ returned, the outcome of the last call, whether
\*          __next__ was called, whether StopIteration was raised, and how
\*          often _iterating was assigned
\* feed   : per object, the lines a scripted caller appends, in order
\* args   : the lines handed to linecomp
\* result : result[<<i, j>>] = linecomp(args[i], args[j]) once compared
VARIABLES sorter, hist, feed, args, result

vars == <<sorter, hist, feed, args, result>>

\* Most lines a caller appends to one MergeSort.
MaxLines == 4

\* Most lines of a scripted input.
MaxPairLines == 3

\* Longest line handed to linecomp on its own.
MaxLen == 2

\* JUST_BELOW_TWO_SHORT_LINES of the tests: two two-character lines reach it,
\* one does not.
JUST_BELOW_TWO_SHORT_LINES == 174

\* The lines callers append: "1", "01" (equal to "1" under linecomp), "2" and
\* "10" (behind "2" under linecomp, before it as text), each with its newline.
Lines == { <<"1", "\n">>, <<"0", "1", "\n">>, <<"2", "\n">>,
           <<"1", "0", "\n">> }

\* The ceilings tried: one that every line reaches, the tests' ceiling that
\* two lines reach, and the tests' ceiling that nothing reaches.
MaxMemories == { getsizeof_list(<<<<>>>>) + getsizeof_str(<<"1", "\n">>),
                 JUST_BELOW_TWO_SHORT_LINES,
                 1000000 }

\* All sequences over S of length at most n.
SeqsUpTo(S, n) == UNION { [1..k -> S] : k \in 0..n }

\* How often x occurs in the sequence s.
Count(s, x) == Cardinality({ k \in DOMAIN s : s[k] = x })

\* The elements of the sequence s.
Range(s) == { s[k] : k \in DOMAIN s }

\* s and t hold the same records the same number of times.
SameBag(s, t) ==
    /\ Len(s) = Len(t)
    /\ \A x \in Range(s) \cup Range(t) : Count(s, x) = Count(t, x)

\* What a caller has seen of a fresh object.
NewHist ==
    [appended  |-> <<>>,
     returned  |-> <<>>,
     last      |-> [op |-> "__init__", res |-> "None"],
     pulled    |-> FALSE,
     exhausted |-> FALSE,
     builds    |-> 0]

\* ------------------------------------------------------------------------
\* Calls on one MergeSort
\* ------------------------------------------------------------------------

\* What the caller has seen after append(line) gave r.
HistAppend(h, line, r) ==
    [h EXCEPT !.appended = IF r.res = "None" THEN Append(@, line) ELSE @,
              !.last = [op |-> "append", res |-> r.res]]

\* What the caller has seen after __next__ gave r.
HistNext(h, r) ==
    [h EXCEPT !.returned = IF r.res = "line" THEN Append(@, r.val) ELSE @,
              !.last = [op |-> "__next__", res |-> r.res],
              !.pulled = TRUE,
              !.exhausted = @ \/ r.res = "StopIteration",
              !.builds = IF r.built THEN @ + 1 ELSE @]

\* What the caller has seen after __iter__.
HistIter(h) == [h EXCEPT !.last = [op |-> "__iter__", res |-> "self"]]

\* m.append(line) on object i.
AppendCall(i, line) ==
    \E r \in { append(sorter[i], line) } :
        /\ r.res = "ValueError" \/ Len(hist[i].appended) < MaxLines
        /\ sorter' = [sorter EXCEPT ![i] = r.obj]
        /\ hist' = [hist EXCEPT ![i] = HistAppend(@, line, r)]

\* next(m) on object i.
NextCall(i) ==
    \E r \in { __next__(sorter[i]) } :
        /\ sorter' = [sorter EXCEPT ![i] = r.obj]
        /\ hist' = [hist EXCEPT ![i] = HistNext(@, r)]

\* iter(m) on object i.
IterCall(i) ==
    /\ sorter' = [sorter EXCEPT ![i] = __iter__(sorter[i])]
    /\ hist' = [hist EXCEPT ![i] = HistIter(@)]

\* ------------------------------------------------------------------------
\* Spec: one MergeSort, any calls in any order
\* ------------------------------------------------------------------------

Init ==
    /\ \E max_memory \in MaxMemories : sorter = << __init__(max_memory) >>
    /\ hist = << NewHist >>
    /\ feed = <<>>
    /\ args = <<>>
    /\ result = <<>>

Appending == \E line \in Lines : AppendCall(1, line) /\ UNCHANGED <<feed, args, result>>

Pulling == NextCall(1) /\ UNCHANGED <<feed, args, result>>

Iterating == IterCall(1) /\ UNCHANGED <<feed, args, result>>

Next == Appending \/ Pulling \/ Iterating

Spec == Init /\ [][Next]_vars

\* ------------------------------------------------------------------------
\* SpecPair: two MergeSort objects fed by script and drained side by side
\* ------------------------------------------------------------------------

\* The lines of test_mergesort_iterate_disk, 3 1 4 1 5 9 2 6 5 3 8 4, and
\* the order the test expects them back in.
Scenario ==
    [k \in 1..12 |->
        << <<"3", "1", "4", "1", "5", "9", "2", "6", "5", "3", "8", "4">>[k], "\n" >>]

ScenarioSorted ==
    [k \in 1..12 |->
        << <<"1", "1", "2", "3", "3", "4", "4", "5", "5", "6", "8", "9">>[k], "\n" >>]

\* The scripted inputs: every short input with every reordering of it, and
\* the test scenario.
Feeds ==
    { p \in SeqsUpTo(Lines, MaxPairLines) \X SeqsUpTo(Lines, MaxPairLines) :
        SameBag(p[1], p[2]) }
    \cup { <<Scenario, Scenario>> }

PairInit ==
    /\ feed \in Feeds
    /\ \E m1 \in MaxMemories, m2 \in MaxMemories :
          sorter = << __init__(m1), __init__(m2) >>
    /\ hist = << NewHist, NewHist >>
    /\ args = <<>>
    /\ result = <<>>

\* Both callers append their next line.
PairAppend ==
    /\ Len(hist[1].appended) < Len(feed[1])
    /\ ~hist[1].pulled
    /\ \E k \in { Len(hist[1].appended) + 1 } :
       \E r1 \in { append(sorter[1], feed[1][k]) },
          r2 \in { append(sorter[2], feed[2][k]) } :
          /\ sorter' = << r1.obj, r2.obj >>
          /\ hist' = << HistAppend(hist[1], feed[1][k], r1),
                        HistAppend(hist[2], feed[2][k], r2) >>
    /\ UNCHANGED <<feed, args, result>>

\* Both callers, having appended everything, pull once.
PairNext ==
    /\ Len(hist[1].appended) = Len(feed[1])
    /\ ~(hist[1].exhausted /\ hist[2].exhausted)
    /\ \E r1 \in { __next__(sorter[1]) }, r2 \in { __next__(sorter[2]) } :
          /\ sorter' = << r1.obj, r2.obj >>
          /\ hist' = << HistNext(hist[1], r1), HistNext(hist[2], r2) >>
    /\ UNCHANGED <<feed, args, result>>

NextPair == PairAppend \/ PairNext

SpecPair == PairInit /\ [][NextPair]_vars

\* ------------------------------------------------------------------------
\* SpecCmp: linecomp applied to three records, in every pairing
\* ------------------------------------------------------------------------

\* Characters the short records are made of: a sign, a decimal point, a
\* zero, a non-zero digit and a letter.
CmpChars == {"-", ".", "0", "1", "a"}

\* The records the tests and their docstrings compare beyond the short ones.
LongRecords ==
    { <<"4", "2">>, <<"5", ".", "0">>, <<"4", "2", ".", "0">>,
      <<"\\", "N">>, <<"f", "o", "o">>,
      <<"4", "2", "\n">>, <<"5", ".", "0", "\n">>, <<"\\", "N", "\n">> }

Records == UNION { [1..n -> CmpChars] : n \in 0..MaxLen } \cup LongRecords

\* A number that tells two records apart: the record read as a numeral
\* whose digits are its code points.
RECURSIVE Code(_)
Code(s) ==
    IF s = <<>> THEN 0
    ELSE 128 * Code(SubSeq(s, 1, Len(s) - 1)) + Ord(s[Len(s)])

\* Three records, up to the order they are taken in: Compare pairs them
\* both ways round.
CmpInit ==
    /\ \E a \in Records :
       \E b \in { x \in Records : Code(a) <= Code(x) } :
       \E c \in { x \in Records : Code(b) <= Code(x) } :
          args = <<a, b, c>>
    /\ result = <<>>
    /\ sorter = <<>>
    /\ hist = <<>>
    /\ feed = <<>>

\* linecomp(l1, l2) for every pairing of the three records.
Compare ==
    /\ result = <<>>
    /\ result' = [p \in (1..3) \X (1..3) |-> linecomp(args[p[1]], args[p[2]])]
    /\ UNCHANGED <<args, sorter, hist, feed>>

NextCmp == Compare

SpecCmp == CmpInit /\ [][NextCmp]_vars

\* ------------------------------------------------------------------------
\* SpecSort: list.sort(key=cmp_to_key(linecomp)) on records of the fixture
\* ------------------------------------------------------------------------

\* '\t'.join(fields)
RECURSIVE join(_)
join(fields) ==
    IF Len(fields) = 1 THEN fields[1]
    ELSE fields[1] \o <<"\t">> \o join(Tail(fields))

NULL == <<"\\", "N">>

\* The unsorted records of test_linecomp_by_sorting.
unsorted ==
    << join(<<NULL, NULL, NULL>>),
       join(<<NULL, <<>>, NULL>>),
       join(<<NULL, NULL, <<>>>>),
       join(<<<<>>, NULL, NULL>>),
       join(<<NULL, <<"-", ".", "5", "2">>, <<"b", "a", "z">>>>),
       join(<<NULL, <<"4", "2">>, NULL>>),
       join(<<NULL, <<".", "4", "2">>, <<"b", "a", "r">>>>),
       join(<<NULL, <<"-", ".", "4">>, <<"f", "o", "o">>>>),
       join(<<NULL, <<"f", "o", "o">>, <<".", "4", "2">>>>) >>

\* The records of s at the positions in keep, in their order in s.
RECURSIVE Sublist(_, _)
Sublist(s, keep) ==
    IF s = <<>> THEN <<>>
    ELSE (IF Len(s) \in keep THEN Sublist(SubSeq(s, 1, Len(s) - 1), keep) \o <<s[Len(s)]>>
          ELSE Sublist(SubSeq(s, 1, Len(s) - 1), keep))

SortInit ==
    /\ args \in { Sublist(unsorted, keep) : keep \in SUBSET DOMAIN unsorted }
    /\ result = <<>>
    /\ sorter = <<>>
    /\ hist = <<>>
    /\ feed = <<>>

\* sorted_lines = unsorted[:]; sorted_lines.sort(key=cmp_to_key(linecomp))
Sort ==
    /\ result = <<>>
    /\ args # <<>>
    /\ result' = ListSort(args)
    /\ UNCHANGED <<args, sorter, hist, feed>>

NextSort == Sort

SpecSort == SortInit /\ [][NextSort]_vars

\* ------------------------------------------------------------------------
\* SpecLoop: one call of linecomp, pass by pass of its main loop
\* ------------------------------------------------------------------------

\* The strings compared: the short records and the same with empty and
\* tab-separated fields.
LoopRecords == UNION { [1..n -> CmpChars \cup {"\t"}] : n \in 0..MaxLen } \cup LongRecords

\* p1 = 0; p2 = 0; prev_p1 = None; prev_p2 = None
LoopInit ==
    /\ args \in LoopRecords \X LoopRecords
    /\ result = [at |-> "while", p1 |-> 0, p2 |-> 0,
                 prev_p1 |-> -1, prev_p2 |-> -1, val |-> 0]
    /\ sorter = <<>>
    /\ hist = <<>>
    /\ feed = <<>>

\* One pass of "while True": raise when no cursor moved since the pass before,
\* else run the body, which returns or sets the cursors for the next pass.
Pass ==
    /\ result.at = "while"
    /\ IF result.p1 = result.prev_p1 /\ result.p2 = result.prev_p2
       THEN result' = [result EXCEPT !.at = "raise", !.val = RuntimeError]
       ELSE \E r \in { LinePass(args[1], args[2], result.p1, result.p2) } :
               result' = IF r.ret
                         THEN [result EXCEPT !.at = "return", !.val = r.val]
                         ELSE [at |-> "while", p1 |-> r.p1, p2 |-> r.p2,
                               prev_p1 |-> result.p1, prev_p2 |-> result.p2,
                               val |-> 0]
    /\ UNCHANGED <<args, sorter, hist, feed>>

NextLoop == Pass

\* A call that has started runs on until it returns or raises.
SpecLoop == LoopInit /\ [][NextLoop]_vars /\ WF_vars(Pass)

\* ------------------------------------------------------------------------
\* split_sql_file (pgtricks/pg_dump_splitsort.py): the dump splitter
\* ------------------------------------------------------------------------

\* str.startswith
StartsWith(l, prefix) ==
    Len(l) >= Len(prefix) /\ SubSeq(l, 1, Len(prefix)) = prefix

\* str.find from a start index: the first index of pat in l, or -1.
Find(l, pat, start) ==
    LET hits == { i \in start..(Len(l) - Len(pat)) :
                    Slice(l, i, i + Len(pat)) = pat }
    IN  IF hits = {} THEN -1
        ELSE CHOOSE i \in hits : \A j \in hits : i <= j

\* What \s matches, of the characters a dump line can hold.
Whitespace == {" ", "\t", "\n"}

\* The index after the longest run of \s (inside) or \S (not inside) at p.
RECURSIVE SkipRun(_, _, _)
SkipRun(l, p, inside) ==
    IF p < Len(l) /\ ((At(l, p) \in Whitespace) = inside)
    THEN SkipRun(l, p + 1, inside)
    ELSE p

\* "".join(lines)
RECURSIVE Concat(_)
Concat(lines) ==
    IF lines = <<>> THEN <<>> ELSE Head(lines) \o Concat(Tail(lines))

\* 'FROM\s+stdin;\n$' at index p of l.
FromStdin(l, p) ==
    /\ p + 4 <= Len(l)
    /\ Slice(l, p, p + 4) = <<"F", "R", "O", "M">>
    /\ LET f == SkipRun(l, p + 4, TRUE)
       IN  /\ f > p + 4
           /\ Slice(l, f, Len(l)) = <<"s", "t", "d", "i", "n", ";", "\n">>

\* COPY_RE.match(line): 'COPY\s+\S+\s+(\(.*?\)\s+)?FROM\s+stdin;\n$'
COPY_RE(l) ==
    /\ StartsWith(l, <<"C", "O", "P", "Y">>)
    /\ LET b == SkipRun(l, 4, TRUE)
           c == SkipRun(l, b, FALSE)
           d == SkipRun(l, c, TRUE)
       IN  /\ b > 4 /\ c > b /\ d > c
           /\ \/ FromStdin(l, d)
              \/ /\ d < Len(l)
                 /\ At(l, d) = "("
                 /\ \E k \in (d + 1)..(Len(l) - 1) :
                       /\ At(l, k) = ")"
                       /\ \A i \in (d + 1)..(k - 1) : At(l, i) # "\n"
                       /\ SkipRun(l, k + 1, TRUE) > k + 1
                       /\ FromStdin(l, SkipRun(l, k + 1, TRUE))

\* '-- Data for Name: ' of DATA_COMMENT_RE
DataName ==
    <<"-", "-", " ", "D", "a", "t", "a", " ", "f", "o", "r", " ", "N",
      "a", "m", "e", ":", " ">>

\* '; Type: TABLE DATA; Schema: ' of DATA_COMMENT_RE
DataType ==
    <<";", " ", "T", "y", "p", "e", ":", " ", "T", "A", "B", "L", "E",
      " ", "D", "A", "T", "A", ";", " ", "S", "c", "h", "e", "m", "a",
      ":", " ">>

\* matcher.match(DATA_COMMENT_RE, line): None, or the match with its groups
\* table and schema (both lazy, so each ends at the first fit).
DATA_COMMENT_RE(l) ==
    IF ~StartsWith(l, DataName) THEN None
    ELSE LET a == Len(DataName)
             i == Find(l, DataType, a)
             b == i + Len(DataType)
             j == IF i = -1 THEN -1 ELSE Find(l, <<";">>, b)
         IN  IF i = -1 \/ j = -1 THEN None
             ELSE [kind |-> "match", table |-> Slice(l, a, i),
                   schema |-> Slice(l, b, j)]

\* '-- Name: ' of SEQUENCE_SET_RE
SeqName ==
    <<"-", "-", " ", "N", "a", "m", "e", ":", " ">>

\* '; Type: SEQUENCE SET; Schema: ' of SEQUENCE_SET_RE
SeqType ==
    <<";", " ", "T", "y", "p", "e", ":", " ", "S", "E", "Q", "U", "E",
      "N", "C", "E", " ", "S", "E", "T", ";", " ", "S", "c", "h", "e",
      "m", "a", ":", " ">>

\* "SELECT pg_catalog.setval('" of SEQUENCE_SET_RE
SetVal ==
    <<"S", "E", "L", "E", "C", "T", " ", "p", "g", "_", "c", "a", "t",
      "a", "l", "o", "g", ".", "s", "e", "t", "v", "a", "l", "(", "'">>

\* SEQUENCE_SET_RE.match(line)
SEQUENCE_SET_RE(l) ==
    \/ StartsWith(l, SeqName) /\ Find(l, SeqType, Len(SeqName) + 1) # -1
    \/ StartsWith(l, SetVal)

\* 'SET search_path = '
SearchPath ==
    <<"S", "E", "T", " ", "s", "e", "a", "r", "c", "h", "_", "p", "a",
      "t", "h", " ", "=", " ">>

\* The decimal digits of n, at least width of them ('{:04}', '%04d').
RECURSIVE ZeroPadded(_, _)
ZeroPadded(n, width) ==
    LET digit == CHOOSE c \in Digits : Ord(c) = 48 + (n % 10)
    IN  IF n < 10 /\ width <= 1 THEN <<digit>>
        ELSE ZeroPadded(n \div 10, width - 1) \o <<digit>>

\* '0000_prologue.sql'
PrologueName ==
    <<"0", "0", "0", "0", "_", "p", "r", "o", "l", "o", "g", "u", "e",
      ".", "s", "q", "l">>

\* '{counter:04}_{schema}.{table}.sql'
DataFileName(counter, schema, table) ==
    ZeroPadded(counter, 4) \o <<"_">> \o schema \o <<".">> \o table
        \o <<".", "s", "q", "l">>

\* '%04d_epilogue.sql' % counter
EpilogueName(counter) ==
    ZeroPadded(counter, 4)
        \o <<"_", "e", "p", "i", "l", "o", "g", "u", "e", ".", "s", "q", "l">>

\* The terminator line of a COPY block, "\\.\n".
Terminator == <<"\\", ".", "\n">>

\* sql_file.readline() at line offset pos: the next line, '' at end of file.
sql_readline(lines, pos) == IF pos < Len(lines) THEN lines[pos + 1] ELSE <<>>

\* sql_file.tell() after readline() at line offset pos.
sql_tell(lines, pos) == IF pos < Len(lines) THEN pos + 1 ELSE pos

\* flush(): write the held-back lines to the current output file.
flush(s) ==
    [s EXCEPT !.files[s.output] = @ \o Concat(s.buf), !.buf = <<>>]

\* writelines(lines) of split_sql_file: the held-back lines first.
split_writelines(s, lines) ==
    LET t == IF s.buf # <<>> THEN flush(s) ELSE s
    IN  [t EXCEPT !.files[t.output] = @ \o Concat(lines)]

\* output = new_output(filename): open(..., 'w') creates or truncates.
new_output(s, filename) ==
    [s EXCEPT !.output = filename,
              !.files = [n \in DOMAIN s.files \cup {filename} |->
                           IF n = filename THEN <<>> ELSE s.files[n]]]

\* The offset of the first terminator line at or after position, the end of
\* the file if there is none.
BlockEnd(lines, position) ==
    LET ends == { p \in position..(Len(lines) - 1) : lines[p + 1] = Terminator }
    IN  IF ends = {} THEN Len(lines)
        ELSE CHOOSE p \in ends : \A q \in ends : p <= q

\* sort_file_lines(sql_filepath, output.name, position, r"\."): the lines
\* of the dump from position up to the terminator go sorted, and the
\* terminator after them, to the end of the output file; the result is the
\* offset after the terminator (the end of the file if there is none).
sort_file_lines(s, lines, position) ==
    CHOOSE r \in
        { [s |-> [s EXCEPT !.files[s.output] = @ \o Concat(rows) \o
                      (IF stop < Len(lines) THEN Terminator ELSE <<>>)],
           new_position |-> IF stop < Len(lines) THEN stop + 1 ELSE stop] :
          <<stop, rows>> \in
              { <<e, sort_lines(SubSeq(lines, position + 1, e))>> :
                  e \in { BlockEnd(lines, position) } } } : TRUE

\* The loop body for a line outside a COPY block: hold back blank and "--"
\* lines, pick the output file, write the line.
outside(s, line, max_memory) ==
    IF line \in { <<"\n">>, <<"-", "-", "\n">> }
    THEN [s |-> [s EXCEPT !.buf = Append(@, line)], sorted_data_lines |-> None]
    ELSE IF StartsWith(line, SearchPath)
    THEN [s |-> split_writelines(s, <<line>>), sorted_data_lines |-> None]
    ELSE LET m == DATA_COMMENT_RE(line)
         IN  IF m # None
             THEN [s |-> split_writelines(
                           new_output([s EXCEPT !.counter = @ + 1],
                                      DataFileName(s.counter + 1, m.schema,
                                                   m.table)),
                           <<line>>),
                   sorted_data_lines |-> None]
             ELSE IF COPY_RE(line)
             THEN [s |-> split_writelines(s, <<line>>),
                   sorted_data_lines |-> __init__(max_memory)]
             ELSE IF SEQUENCE_SET_RE(line)
             THEN [s |-> split_writelines(s, <<line>>),
                   sorted_data_lines |-> None]
             ELSE IF 1 <= s.counter /\ s.counter < 9999
             THEN [s |-> split_writelines(
                           new_output([s EXCEPT !.counter = 9999],
                                      EpilogueName(9999)),
                           <<line>>),
                   sorted_data_lines |-> None]
             ELSE [s |-> split_writelines(s, <<line>>),
                   sorted_data_lines |-> None]

\* ------------------------------------------------------------------------
\* SpecSplit: split_sql_file, one pass of its read loop at a time
\* ------------------------------------------------------------------------

\* The most rows of a COPY block.
MaxRows == 2

KIBIBYTE == 2^10

MEBIBYTE == 2^20

GIBIBYTE == 2^30

\* A line of the prologue that is no comment: 'CREATE TABLE foo ();\n'
CreateLine ==
    <<"C", "R", "E", "A", "T", "E", " ", "T", "A", "B", "L", "E", " ",
      "f", "o", "o", " ", "(", ")", ";", "\n">>

\* 'SET search_path = public;\n'
SearchPathLine ==
    <<"S", "E", "T", " ", "s", "e", "a", "r", "c", "h", "_", "p", "a",
      "t", "h", " ", "=", " ", "p", "u", "b", "l", "i", "c", ";", "\n">>

\* '-- Data for Name: table1; Type: TABLE DATA; Schema: public;\n'
DataCommentLine ==
    <<"-", "-", " ", "D", "a", "t", "a", " ", "f", "o", "r", " ", "N",
      "a", "m", "e", ":", " ", "t", "a", "b", "l", "e", "1", ";", " ",
      "T", "y", "p", "e", ":", " ", "T", "A", "B", "L", "E", " ", "D",
      "A", "T", "A", ";", " ", "S", "c", "h", "e", "m", "a", ":", " ",
      "p", "u", "b", "l", "i", "c", ";", "\n">>

\* 'COPY foo (id) FROM stdin;\n'
CopyLine ==
    <<"C", "O", "P", "Y", " ", "f", "o", "o", " ", "(", "i", "d", ")",
      " ", "F", "R", "O", "M", " ", "s", "t", "d", "i", "n", ";", "\n">>

\* "SELECT pg_catalog.setval('foo_id_seq', 1);\n"
SetValLine ==
    <<"S", "E", "L", "E", "C", "T", " ", "p", "g", "_", "c", "a", "t",
      "a", "l", "o", "g", ".", "s", "e", "t", "v", "a", "l", "(", "'",
      "f", "o", "o", "_", "i", "d", "_", "s", "e", "q", "'", ",", " ",
      "1", ")", ";", "\n">>

\* '-- epilogue\n'
EpilogueLine ==
    <<"-", "-", " ", "e", "p", "i", "l", "o", "g", "u", "e", "\n">>

\* What comes before the table data in the dumps tried (PROLOGUE).
Prologues ==
    { <<>>,
      << <<"\n">>, <<"-", "-", "\n">>, CreateLine >>,
      << SearchPathLine, CreateLine >> }

\* A table-data section with the given rows (TABLE1_COPY).
Section(rows) ==
    << <<"\n">>, DataCommentLine, <<"\n">>, CopyLine >> \o rows
        \o << Terminator >>

\* What comes after the table data in the dumps tried (EPILOGUE).
Epilogues ==
    { <<>>,
      << <<"\n">>, EpilogueLine >>,
      << SetValLine, <<"\n">> >> }

\* The dumps tried: a prologue, at most one table-data section, an epilogue.
Dumps ==
    { pre \o post : pre \in Prologues, post \in Epilogues }
    \cup { pre \o Section(rows) \o post :
             pre \in Prologues, rows \in SeqsUpTo(Lines, MaxRows),
             post \in Epilogues }

\* The locals of split_sql_file before its loop: the prologue file is open
\* and empty, nothing is held back, the dump is open at its start.
SplitInit ==
    /\ args \in { [sql |-> d, max_memory |-> 100 * MEBIBYTE] : d \in Dumps }
    /\ feed = [pos |-> 0]
    /\ sorter = None
    /\ result = [at |-> "while", buf |-> <<>>, counter |-> 0, position |-> 0,
                 output |-> PrologueName,
                 files |-> [n \in {PrologueName} |-> <<>>]]
    /\ hist = <<>>

\* One pass of "while True" with sorted_data_lines None.
Outside ==
    /\ result.at = "while"
    /\ sorter = None
    /\ \E line \in { sql_readline(args.sql, feed.pos) } :
       \E tell \in { sql_tell(args.sql, feed.pos) } :
       \E r \in { outside(result, line, args.max_memory) } :
          /\ sorter' = r.sorted_data_lines
          /\ feed' = [feed EXCEPT !.pos = tell]
          /\ result' = [r.s EXCEPT !.position = tell]
    /\ UNCHANGED <<args, hist>>

\* One pass of "while True" with sorted_data_lines a MergeSort: unless the
\* line is the terminator, sort_file_lines writes the block and the dump is
\* read on from where it stopped.
Inside ==
    /\ result.at = "while"
    /\ sorter # None
    /\ \E line \in { sql_readline(args.sql, feed.pos) } :
          IF line # Terminator
          THEN \E r \in { sort_file_lines(result, args.sql, result.position) } :
                  /\ feed' = [feed EXCEPT !.pos = r.new_position]
                  /\ result' = [r.s EXCEPT !.position = r.new_position]
          ELSE \E tell \in { sql_tell(args.sql, feed.pos) } :
                  /\ feed' = [feed EXCEPT !.pos = tell]
                  /\ result' = [result EXCEPT !.position = tell]
    /\ sorter' = None
    /\ UNCHANGED <<args, hist>>

NextSplit == Outside \/ Inside

\* The loop runs on for as long as a pass changes anything.
SpecSplit == SplitInit /\ [][NextSplit]_vars /\ WF_vars(NextSplit)

\* ------------------------------------------------------------------------
\* memory_size (pgtricks/pg_dump_splitsort.py): parsing a memory size
\* ------------------------------------------------------------------------

\* str.lower() on one character, for the letters the sizes tried hold.
Lower(c) ==
    CASE c = "B" -> "b" [] c = "G" -> "g" [] c = "I" -> "i" [] c = "K" -> "k"
      [] c = "M" -> "m" [] c = "T" -> "t" [] OTHER -> c

\* size.lower()
lower(size) == [i \in 1..Len(size) |-> Lower(size[i])]

\* str.strip(): without the white space at either end.
RECURSIVE strip(_)
strip(s) ==
    IF s = <<>> THEN s
    ELSE IF s[1] \in Whitespace THEN strip(Tail(s))
    ELSE IF s[Len(s)] \in Whitespace THEN strip(SubSeq(s, 1, Len(s) - 1))
    ELSE s

\* [\d._]
NumberChars == Digits \cup {".", "_"}

\* The index after the longest run of characters of S that starts at p.
RECURSIVE RunEnd(_, _, _)
RunEnd(s, p, S) ==
    IF p < Len(s) /\ At(s, p) \in S THEN RunEnd(s, p + 1, S) ELSE p

\* re.match(r"([\d._]+)\s*([kmg]?)b?", s): None, or the match with its
\* groups 1 and 2.  Every part after group 1 can match nothing, so group 1
\* is the whole leading run and nothing is asked of the text after the match.
size_match(s) ==
    LET a == RunEnd(s, 0, NumberChars)
        b == RunEnd(s, a, Whitespace)
    IN  IF a = 0 THEN None
        ELSE [kind |-> "match", number |-> Slice(s, 0, a),
              unit |-> IF b < Len(s) /\ At(s, b) \in {"k", "m", "g"}
                       THEN <<At(s, b)>> ELSE <<>>]

\* MEMORY_UNITS[unit]
MEMORY_UNITS(unit) ==
    CASE unit = <<>> -> 1
      [] unit = <<"k">> -> KIBIBYTE
      [] unit = <<"m">> -> MEBIBYTE
      [] unit = <<"g">> -> GIBIBYTE

\* Digits with single underscores between them: what float() takes on
\* either side of the point.
DigitPart(p) ==
    /\ p # <<>>
    /\ p[1] \in Digits /\ p[Len(p)] \in Digits
    /\ \A k \in 1..(Len(p) - 1) : ~(p[k] = "_" /\ p[k + 1] = "_")

\* float(number) does not raise: at most one point, a digit somewhere, and
\* underscores only between digits.
IsFloat(number) ==
    LET points == { k \in DOMAIN number : number[k] = "." }
        p      == IF points = {} THEN Len(number) + 1
                  ELSE CHOOSE k \in points : TRUE
        whole  == SubSeq(number, 1, p - 1)
        frac   == SubSeq(number, p + 1, Len(number))
    IN  /\ Cardinality(points) <= 1
        /\ whole # <<>> \/ frac # <<>>
        /\ whole = <<>> \/ DigitPart(whole)
        /\ frac = <<>> \/ DigitPart(frac)

\* The digits of s, in order.
RECURSIVE OnlyDigits(_)
OnlyDigits(s) ==
    IF s = <<>> THEN <<>>
    ELSE IF s[1] \in Digits THEN <<s[1]>> \o OnlyDigits(Tail(s))
    ELSE OnlyDigits(Tail(s))

\* The number of digits of number after its point.
FracDigits(number) ==
    LET points == { k \in DOMAIN number : number[k] = "." }
    IN  IF points = {} THEN 0
        ELSE Len(OnlyDigits(SubSeq(number, (CHOOSE k \in points : TRUE) + 1,
                                   Len(number))))

\* Twice the decimal numeral ds plus carry.
RECURSIVE Double(_, _)
Double(ds, carry) ==
    IF ds = <<>> THEN IF carry = 0 THEN <<>> ELSE <<Chr(48 + carry)>>
    ELSE CHOOSE r \in
            { Double(SubSeq(ds, 1, Len(ds) - 1), d \div 10) \o <<Chr(48 + (d % 10))>> :
                d \in { 2 * (Ord(ds[Len(ds)]) - 48) + carry } } : TRUE

\* The decimal numeral ds times unit, a power of two.
RECURSIVE Times(_, _)
Times(ds, unit) ==
    IF unit = 1 THEN ds
    ELSE CHOOSE r \in { Times(d, unit \div 2) : d \in { Double(ds, 0) } } : TRUE

\* An int as str() shows it: no leading zeros.
RECURSIVE Canonical(_)
Canonical(ds) ==
    IF ds = <<>> THEN <<"0">>
    ELSE IF ds[1] = "0" THEN Canonical(Tail(ds))
    ELSE ds

\* int(float(number) * unit): the digits of number shifted by the unit, cut
\* at the point.  (The product of a float and a power of two is exact, and
\* so is float(number) whenever the product is whole.)
int_float_times(number, unit) ==
    LET all  == Times(OnlyDigits(number), unit)
        keep == Len(all) - FracDigits(number)
    IN  Canonical(IF keep <= 0 THEN <<>> ELSE SubSeq(all, 1, keep))

\* raise ValueError
ValueError == [kind |-> "ValueError"]

\* A memory_size that takes the size as it is written.
memory_size_asWritten(size) ==
    LET match == size_match(strip(size))
    IN  IF match = None THEN ValueError
        ELSE IF ~IsFloat(match.number) THEN ValueError
        ELSE [kind |-> "int",
              digits |-> int_float_times(match.number, MEMORY_UNITS(match.unit))]

\* memory_size(size): the int as its decimal digits, or ValueError (raised
\* by memory_size itself or by float()).
memory_size(size) ==
    LET match == size_match(strip(lower(size)))
    IN  IF match = None THEN ValueError
        ELSE IF ~IsFloat(match.number) THEN ValueError
        ELSE [kind |-> "int",
              digits |-> int_float_times(match.number, MEMORY_UNITS(match.unit))]

\* ------------------------------------------------------------------------
\* SpecSize: one call of memory_size
\* ------------------------------------------------------------------------

\* The most characters of a number tried.
MaxNumLen == 3

\* The numbers tried: every short text of digits, points and underscores,
\* and the longer numbers of test_memory_size.
Numbers ==
    SeqsUpTo({"0", "1", "5", ".", "_"}, MaxNumLen)
    \cup { <<"2", "0">>, <<"1", "0", "0", "_", "0", "0", "0">> }

\* What follows the number in the sizes tried: no unit, the units in both
\* cases and with their b and ib endings, the unit words of
\* test_memory_size, and texts that are no unit.
Tails ==
    { <<>>, <<"k">>, <<"m">>, <<"g">>, <<"K">>, <<"M">>, <<"G">>,
      <<"k", "b">>, <<"K", "B">>, <<"M", "B">>, <<"G", "B">>,
      <<"K", "i", "B">>, <<"m", "i", "b">>, <<"g", "i", "b">>,
      <<"k", "i", "b", "i", "b", "y", "t", "e", "s">>,
      <<"M", "e", "g", "a", "b", "y", "t", "e", "s">>,
      <<"G", "i", "g", "s">>,
      <<"b">>, <<"x">>, <<"t", "b">>, <<"T">>, <<"%">>, <<"k", "x">>,
      <<"a", "p", "p", "l", "e", "s">> }

\* The sizes tried, in their parts: white space, a number, white space, a
\* tail.
SizeParts ==
    [lead : {<<>>, <<" ">>}, number : Numbers, sep : {<<>>, <<" ">>},
     tail : Tails]

\* A size and the call that is to parse it.
SizeInit ==
    /\ feed \in SizeParts
    /\ args = feed.lead \o feed.number \o feed.sep \o feed.tail
    /\ result = None
    /\ sorter = <<>>
    /\ hist = <<>>

\* result = memory_size(size)
Parse ==
    /\ result = None
    /\ \E r \in { memory_size(args) } : result' = r
    /\ UNCHANGED <<args, feed, sorter, hist>>

NextSize == Parse

SpecSize == SizeInit /\ [][NextSize]_vars

\* ------------------------------------------------------------------------
\* SpecLife: one MergeSort from construction to after it is discarded
\* ------------------------------------------------------------------------

\* The partition files of m that are open.  MergeSort calls close() on none
\* of them and has no __del__, __enter__ or __exit__: every TemporaryFile in
\* _partitions stays open for as long as the object holds it.
OpenPartitions(m) == Len(m.partitions)

\* A MergeSort that its caller holds.
LifeInit ==
    /\ \E max_memory \in MaxMemories : sorter = << __init__(max_memory) >>
    /\ hist = << NewHist >>
    /\ result = [discarded |-> FALSE, open |-> 0]
    /\ feed = <<>>
    /\ args = <<>>

\* The caller appends a line.
LifeAppending ==
    /\ ~result.discarded
    /\ \E line \in Lines : AppendCall(1, line)
    /\ result' = [result EXCEPT !.open = OpenPartitions(sorter'[1])]
    /\ UNCHANGED <<feed, args>>

\* The caller pulls a record.
LifePulling ==
    /\ ~result.discarded
    /\ NextCall(1)
    /\ result' = [result EXCEPT !.open = OpenPartitions(sorter'[1])]
    /\ UNCHANGED <<feed, args>>

\* The caller drops its last reference to the object, at any point: before a
\* pull, part-way through the drain, after StopIteration, after ValueError.
\* Nothing of MergeSort runs then; whether the file objects are finalised
\* (closed) at once is up to the interpreter.
Discard ==
    /\ ~result.discarded
    /\ \E finalised \in BOOLEAN :
          result' = [discarded |-> TRUE,
                     open |-> IF finalised THEN 0 ELSE result.open]
    /\ UNCHANGED <<sorter, hist, feed, args>>

\* The interpreter finalises the file objects of a discarded MergeSort.
Finalise ==
    /\ result.discarded
    /\ result.open > 0
    /\ result' = [result EXCEPT !.open = 0]
    /\ UNCHANGED <<sorter, hist, feed, args>>

NextLife == LifeAppending \/ LifePulling \/ Discard \/ Finalise

SpecLife == LifeInit /\ [][NextLife]_vars

\* ------------------------------------------------------------------------
\* split_sql_file (pgtricks/pg_split_schema_dump.py): the schema splitter
\* ------------------------------------------------------------------------

\* The text SPLIT_RE matches: '\n\n--\n-- '
SPLIT_RE ==
        <<"\n", "\n", "-", "-", "\n", "-", "-", " ">>

\* [match.start() for match in SPLIT_RE.finditer(sql)], from index start on:
\* the matches do not overlap.
RECURSIVE SplitStarts(_, _)
SplitStarts(sql, start) ==
    CHOOSE r \in
        { IF i = -1 THEN <<>> ELSE <<i>> \o SplitStarts(sql, i + Len(SPLIT_RE)) :
            i \in { Find(sql, SPLIT_RE, start) } } : TRUE

\* The index after the longest run of characters outside S that starts at p.
RECURSIVE RunEndNot(_, _, _)
RunEndNot(s, p, S) ==
    IF p < Len(s) /\ At(s, p) \notin S THEN RunEndNot(s, p + 1, S) ELSE p

\* s[p:].startswith(prefix)
StartsAt(s, p, prefix) ==
    p + Len(prefix) <= Len(s) /\ Slice(s, p, p + Len(prefix)) = prefix

\* '\n\n--\n-- Name: ' of IDENTIFY_RE
IdentifyName ==
        <<"\n", "\n", "-", "-", "\n", "-", "-", " ", "N", "a", "m",
          "e", ":", " ">>

\* '; Type: ' of IDENTIFY_RE
IdentifyType ==
        <<";", " ", "T", "y", "p", "e", ":", " ">>

\* '; Schema: ' of IDENTIFY_RE
IdentifySchema ==
        <<";", " ", "S", "c", "h", "e", "m", "a", ":", " ">>

\* '; Owner:' of IDENTIFY_RE
IdentifyOwner ==
        <<";", " ", "O", "w", "n", "e", "r", ":">>

\* '\n--\n\n' of IDENTIFY_RE
IdentifyEnd ==
        <<"\n", "-", "-", "\n", "\n">>

\* Where group 1 of IDENTIFY_RE can end when it starts at a: after one or
\* more characters other than line feed and semicolon, with '; Type: ' next,
\* or a parenthesised text and then '; Type: '.  The result holds the end of
\* the group and the index after '; Type: '.
NameEnds(part, a) ==
    { ends \in
        { <<e, IF StartsAt(part, e, IdentifyType) THEN e + Len(IdentifyType)
               ELSE IF e < Len(part) /\ At(part, e) = "("
                       /\ RunEndNot(part, e + 1, {")"}) < Len(part)
                       /\ StartsAt(part, RunEndNot(part, e + 1, {")"}) + 1,
                                   IdentifyType)
               THEN RunEndNot(part, e + 1, {")"}) + 1 + Len(IdentifyType)
               ELSE -1>> :
            e \in (a + 1)..RunEndNot(part, a, {"\n", ";"}) } :
        ends[2] # -1 }

\* IDENTIFY_RE.match(part): None, or the match with its three groups.  Group
\* 1 is lazy and ends at the first fit; groups 2 and 3 run up to the
\* semicolon that has to follow them.
IDENTIFY_RE(part) ==
    IF ~StartsWith(part, IdentifyName) \/ NameEnds(part, Len(IdentifyName)) = {}
    THEN None
    ELSE CHOOSE r \in
        { LET t1 == RunEndNot(part, n[2], {"\n", ";"})
              s0 == t1 + Len(IdentifySchema)
              s1 == RunEndNot(part, s0, {"\n", ";"})
              o1 == RunEndNot(part, s1 + Len(IdentifyOwner), {"\n"})
          IN  IF /\ t1 > n[2]
                 /\ StartsAt(part, t1, IdentifySchema)
                 /\ s1 > s0
                 /\ StartsAt(part, s1, IdentifyOwner)
                 /\ StartsAt(part, o1, IdentifyEnd)
              THEN [kind |-> "match",
                    group1 |-> Slice(part, Len(IdentifyName), n[1]),
                    group2 |-> Slice(part, n[2], t1),
                    group3 |-> Slice(part, s0, s1)]
              ELSE None :
          n \in { CHOOSE m \in NameEnds(part, Len(IdentifyName)) :
                    \A k \in NameEnds(part, Len(IdentifyName)) : m[1] <= k[1] } } :
        TRUE

\* 'SET search_path = ' of SEARCH_PATH_RE is SearchPath.
\* SEARCH_PATH_RE.search(part): None, or the first match's text.
SEARCH_PATH_RE(part) ==
    LET hits == { i \in 0..(Len(part) - Len(SearchPath)) :
                    /\ StartsAt(part, i, SearchPath)
                    /\ RunEndNot(part, i + Len(SearchPath), {"\n", ";"})
                           > i + Len(SearchPath)
                    /\ StartsAt(part, RunEndNot(part, i + Len(SearchPath),
                                                {"\n", ";"}), <<";">>) }
    IN  IF hits = {} THEN None
        ELSE CHOOSE r \in
               { [kind |-> "match",
                  group |-> Slice(part, i,
                                  RunEndNot(part, i + Len(SearchPath),
                                            {"\n", ";"}) + 1)] :
                 i \in { CHOOSE h \in hits : \A k \in hits : h <= k } } : TRUE

\* str.replace(" ", "_")
replace_space(s) == [k \in 1..Len(s) |-> IF s[k] = " " THEN "_" ELSE s[k]]

\* "SET search_path = public;"
DefaultSearchPath ==
        <<"S", "E", "T", " ", "s", "e", "a", "r", "c", "h", "_", "p",
          "a", "t", "h", " ", "=", " ", "p", "u", "b", "l", "i", "c",
          ";">>

\* The loop body of split_sql_file for one part.  s holds the locals and
\* what the function has done so far: the files written, the text printed,
\* the warnings issued.
schema_part(s, part) ==
    CHOOSE r \in
      { IF match = None
        THEN [s EXCEPT !.at = "exit", !.printed = Append(@, part)]
        ELSE LET name   == replace_space(match.group1)
                 type_  == replace_space(match.group2)
                 schema == IF match.group3 = <<"-">>
                           THEN <<"n", "o", "_", "s", "c", "h", "e", "m", "a">>
                           ELSE match.group3
                 dump_filename == schema \o <<".">> \o name \o <<".">> \o type_
                 found  == SEARCH_PATH_RE(part)
             IN  IF name = <<"i", "d">> THEN s
                 ELSE [s EXCEPT
                         !.files = [n \in DOMAIN s.files \cup {dump_filename} |->
                                      IF n = dump_filename
                                      THEN s.search_path \o <<"\n", "\n">> \o part
                                      ELSE s.files[n]],
                         !.search_path = IF found = None THEN @ ELSE found.group] :
        match \in { IDENTIFY_RE(part) } } : TRUE

\* ------------------------------------------------------------------------
\* SpecSchema: split_sql_file of the schema splitter, part by part
\* ------------------------------------------------------------------------

\* The most chunks of a schema dump.
MaxChunks == 3

\* The chunks of the dumps tried, by kind.
ChunkText(kind) ==
    CASE kind = "table1" ->
        <<"\n", "\n", "-", "-", "\n", "-", "-", " ", "N", "a", "m",
          "e", ":", " ", "t", "a", "b", "l", "e", "1", ";", " ", "T",
          "y", "p", "e", ":", " ", "T", "A", "B", "L", "E", ";", " ",
          "S", "c", "h", "e", "m", "a", ":", " ", "p", "u", "b", "l",
          "i", "c", ";", " ", "O", "w", "n", "e", "r", ":", "\n", "-",
          "-", "\n", "\n", "(", "1", ")">>
      [] kind = "table2" ->
        <<"\n", "\n", "-", "-", "\n", "-", "-", " ", "N", "a", "m",
          "e", ":", " ", "t", "a", "b", "l", "e", "2", ";", " ", "T",
          "y", "p", "e", ":", " ", "T", "A", "B", "L", "E", ";", " ",
          "S", "c", "h", "e", "m", "a", ":", " ", "p", "u", "b", "l",
          "i", "c", ";", " ", "O", "w", "n", "e", "r", ":", "\n", "-",
          "-", "\n", "\n", "(", "2", ")">>
      [] kind = "unidentified" ->
        <<"\n", "\n", "-", "-", "\n", "-", "-", " ", "a", "n", " ",
          "e", "x", "a", "m", "p", "l", "e", " ", "o", "f", " ", "u",
          "n", "i", "d", "e", "n", "t", "i", "f", "i", "e", "d", " ",
          "c", "o", "n", "t", "e", "n", "t", "\n", "-", "-", "\n",
          "\n", "(", "u", ")">>
      [] kind = "no_schema" ->
        <<"\n", "\n", "-", "-", "\n", "-", "-", " ", "N", "a", "m",
          "e", ":", " ", "t", " ", "3", ";", " ", "T", "y", "p", "e",
          ":", " ", "T", "A", "B", "L", "E", ";", " ", "S", "c", "h",
          "e", "m", "a", ":", " ", "-", ";", " ", "O", "w", "n", "e",
          "r", ":", "\n", "-", "-", "\n", "\n", "S", "E", "T", " ",
          "s", "e", "a", "r", "c", "h", "_", "p", "a", "t", "h", " ",
          "=", " ", "s", ";">>
      [] kind = "id" ->
        <<"\n", "\n", "-", "-", "\n", "-", "-", " ", "N", "a", "m",
          "e", ":", " ", "i", "d", ";", " ", "T", "y", "p", "e", ":",
          " ", "D", "E", "F", "A", "U", "L", "T", ";", " ", "S", "c",
          "h", "e", "m", "a", ":", " ", "p", "u", "b", "l", "i", "c",
          ";", " ", "O", "w", "n", "e", "r", ":", " ", "m", "e", "\n",
          "-", "-", "\n", "\n", "(", "i", ")">>
      [] kind = "function" ->
        <<"\n", "\n", "-", "-", "\n", "-", "-", " ", "N", "a", "m",
          "e", ":", " ", "f", "(", "i", "n", "t", "e", "g", "e", "r",
          ")", ";", " ", "T", "y", "p", "e", ":", " ", "F", "U", "N",
          "C", "T", "I", "O", "N", ";", " ", "S", "c", "h", "e", "m",
          "a", ":", " ", "p", "u", "b", "l", "i", "c", ";", " ", "O",
          "w", "n", "e", "r", ":", " ", "m", "e", "\n", "-", "-", "\n",
          "\n", "(", "f", ")">>

ChunkKinds == {"table1", "table2", "unidentified", "no_schema", "id", "function"}

\* The text of the dump made of the chunks of the given kinds.
RECURSIVE DumpText(_)
DumpText(kinds) ==
    IF kinds = <<>> THEN <<"\n">>
    ELSE ChunkText(Head(kinds)) \o DumpText(Tail(kinds))

\* split_sql_file before its loop: the dump is read and cut into parts, the
\* search path is the default one.
SchemaInit ==
    /\ feed \in SeqsUpTo(ChunkKinds, MaxChunks)
    /\ args = [sql |-> DumpText(feed),
               parts |-> SplitStarts(DumpText(feed), 0) \o <<Len(DumpText(feed))>>]
    /\ result = [at |-> "for", index |-> 1, search_path |-> DefaultSearchPath,
                 files |-> <<>>, printed |-> <<>>, warnings |-> <<>>]
    /\ sorter = <<>>
    /\ hist = <<>>

\* One pass of the loop over zip(parts[:-1], parts[1:]).
PartStep ==
    /\ result.at = "for"
    /\ result.index < Len(args.parts)
    /\ \E part \in { Slice(args.sql, args.parts[result.index],
                           args.parts[result.index + 1]) } :
       \E r \in { schema_part(result, part) } :
          result' = IF r.at = "exit" THEN r ELSE [r EXCEPT !.index = @ + 1]
    /\ UNCHANGED <<args, feed, sorter, hist>>

\* The loop is through: the function returns.
SchemaReturn ==
    /\ result.at = "for"
    /\ result.index = Len(args.parts)
    /\ result' = [result EXCEPT !.at = "return"]
    /\ UNCHANGED <<args, feed, sorter, hist>>

NextSchema == PartStep \/ SchemaReturn

SpecSchema == SchemaInit /\ [][NextSchema]_vars

\* ------------------------------------------------------------------------
\* SpecFlush: one MergeSort that is appended to and flushed
\* ------------------------------------------------------------------------

\* What the caller has seen after m._flush().
HistFlush(h) == [h EXCEPT !.last = [op |-> "_flush", res |-> "None"]]

\* m._flush() on object i.
FlushCall(i) ==
    /\ sorter' = [sorter EXCEPT ![i] = _flush(sorter[i])]
    /\ hist' = [hist EXCEPT ![i] = HistFlush(@)]

\* The most calls made on the object.
MaxCalls == MaxLines + 2

\* A fresh MergeSort; result is the list of the append and _flush calls made
\* on it.
FlushInit ==
    /\ \E max_memory \in MaxMemories : sorter = << __init__(max_memory) >>
    /\ hist = << NewHist >>
    /\ result = <<>>
    /\ feed = <<>>
    /\ args = <<>>

\* m.append(line)
FlushAppending ==
    /\ Len(result) < MaxCalls
    /\ \E line \in Lines : AppendCall(1, line)
    /\ result' = Append(result, "append")
    /\ UNCHANGED <<feed, args>>

\* m._flush()
Flushing ==
    /\ Len(result) < MaxCalls
    /\ FlushCall(1)
    /\ result' = Append(result, "_flush")
    /\ UNCHANGED <<feed, args>>

\* next(m)
FlushPulling == NextCall(1) /\ UNCHANGED <<feed, args, result>>

NextFlush == FlushAppending \/ Flushing \/ FlushPulling

SpecFlush == FlushInit /\ [][NextFlush]_vars

\* ------------------------------------------------------------------------
\* Claims about one MergeSort (Spec)
\* ------------------------------------------------------------------------

\* Every record of s is in t at least as often as in s.
SubBag(s, t) == \A x \in Range(s) : Count(s, x) <= Count(t, x)

\* The number of line feeds in a partition file.
LinesIn(f) == Cardinality({ p \in DOMAIN f.data : f.data[p] = 10 })

\* The step is an append call on object i that changed something.
AppendStep(i) ==
    /\ hist'[i].last.op = "append"
    /\ hist'[i] # hist[i] \/ sorter'[i] # sorter[i]

\* The step is a __next__ call on object i that changed something.
NextStep(i) ==
    /\ hist'[i].last.op = "__next__"
    /\ hist'[i] # hist[i] \/ sorter'[i] # sorter[i]

\* The step is an __iter__ call on object i that changed something.
IterStep(i) ==
    /\ hist'[i].last.op = "__iter__"
    /\ hist'[i] # hist[i] \/ sorter'[i] # sorter[i]

C2_Permutation ==
    \A i \in DOMAIN hist :
        hist[i].exhausted => SameBag(hist[i].returned, hist[i].appended)

\* C2 witness: an exhausted drain of at least three records that read back a
\* partition file holding more than one line.
C2_Witness ==
    \E i \in DOMAIN hist :
        /\ hist[i].exhausted
        /\ Len(hist[i].appended) >= 3
        /\ \E k \in DOMAIN sorter[i].partitions : LinesIn(sorter[i].partitions[k]) >= 2

\* C5: once __next__ has been called (also when it returned nothing, also
\* after exhaustion) every append raises ValueError and leaves the object and
\* what was returned untouched; before the first __next__ no append raises.
C5_AppendAfterPull ==
    [][ \A i \in DOMAIN hist :
          AppendStep(i) =>
            IF hist[i].pulled
            THEN /\ hist'[i].last.res = "ValueError"
                 /\ sorter'[i] = sorter[i]
                 /\ hist'[i].appended = hist[i].appended
                 /\ hist'[i].returned = hist[i].returned
            ELSE hist'[i].last.res = "None" ]_vars

\* C5 witness: an append was refused in the middle of a drain.
C5_Witness ==
    \E i \in DOMAIN hist :
        /\ hist[i].pulled
        /\ ~hist[i].exhausted
        /\ Len(hist[i].returned) >= 1
        /\ hist[i].last = [op |-> "append", res |-> "ValueError"]

\* C6: the drain is single-pass and the step from building to draining is
\* not undone: the sorted sequence is built exactly once, by the first
\* __next__; no record is returned more often than it was appended; after
\* StopIteration every later __next__ raises StopIteration; __iter__ changes
\* nothing; and _iterating, once true, stays true.
C6_SinglePass ==
    /\ [](\A i \in DOMAIN hist :
            /\ hist[i].builds <= 1
            /\ hist[i].pulled <=> hist[i].builds = 1
            /\ hist[i].pulled <=> Truthy(sorter[i].iterating)
            /\ SubBag(hist[i].returned, hist[i].appended))
    /\ [][ \A i \in DOMAIN hist :
             /\ (NextStep(i) /\ hist[i].exhausted) =>
                    /\ hist'[i].last.res = "StopIteration"
                    /\ hist'[i].returned = hist[i].returned
             /\ IterStep(i) =>
                    /\ sorter'[i] = sorter[i]
                    /\ hist'[i].returned = hist[i].returned
             /\ Truthy(sorter[i].iterating) => Truthy(sorter'[i].iterating) ]_vars

\* C6 witness: after a drain of several records, StopIteration was raised
\* and the iterator was asked for once more.
C6_Witness ==
    \E i \in DOMAIN hist :
        /\ hist[i].exhausted
        /\ Len(hist[i].returned) >= 2
        /\ hist[i].last.op = "__iter__"

\* ------------------------------------------------------------------------
\* Claims about two runs (SpecPair)
\* ------------------------------------------------------------------------

\* Both objects are drained to exhaustion.
BothDrained == Len(hist) = 2 /\ hist[1].exhausted /\ hist[2].exhausted

\* No two different records of s compare equal.
NoEqualDistinct(s) ==
    \A x \in Range(s), y \in Range(s) : linecomp(x, y) = 0 => x = y

C7_TotalPreorder ==
    result # <<>> =>
        \A i \in 1..3, j \in 1..3, k \in 1..3 :
            /\ result[<<i, j>>] \in {-1, 0, 1}
            /\ result[<<i, i>>] = 0
            /\ result[<<i, j>>] = -result[<<j, i>>]
            /\ (result[<<i, j>>] <= 0 /\ result[<<j, k>>] <= 0)
                  => result[<<i, k>>] <= 0

\* C7 witness: a negative numeral, a numeral with a leading zero and a
\* word, compared in every pairing and found in ascending order.
C7_Witness ==
    /\ result # <<>>
    /\ \E i \in 1..3, j \in 1..3, k \in 1..3 :
          /\ args[i] = <<"-", "1">>
          /\ args[j] = <<"0", "1">>
          /\ args[k] = <<"a">>
          /\ result[<<i, j>>] < 0
          /\ result[<<j, k>>] < 0
          /\ result[<<i, k>>] < 0

\* A record that is one signed decimal numeral.
Unsigned(s) == IF s # <<>> /\ s[1] = "-" THEN Tail(s) ELSE s

Dots(u) == { k \in DOMAIN u : u[k] = "." }

IsNumeral(s) ==
    /\ \A k \in DOMAIN Unsigned(s) : Unsigned(s)[k] \in Digits \cup {"."}
    /\ Cardinality(Dots(Unsigned(s))) <= 1
    /\ \E k \in DOMAIN Unsigned(s) : Unsigned(s)[k] \in Digits

IntPart(s) ==
    IF Dots(Unsigned(s)) = {} THEN Unsigned(s)
    ELSE SubSeq(Unsigned(s), 1, (CHOOSE k \in Dots(Unsigned(s)) : TRUE) - 1)

FracPart(s) ==
    IF Dots(Unsigned(s)) = {} THEN <<>>
    ELSE SubSeq(Unsigned(s), (CHOOSE k \in Dots(Unsigned(s)) : TRUE) + 1,
                Len(Unsigned(s)))

RECURSIVE DigitsValue(_)
DigitsValue(ds) ==
    IF ds = <<>> THEN 0
    ELSE 10 * DigitsValue(SubSeq(ds, 1, Len(ds) - 1)) + (Ord(ds[Len(ds)]) - Ord("0"))

RECURSIVE Pow10(_)
Pow10(n) == IF n = 0 THEN 1 ELSE 10 * Pow10(n - 1)

\* The value of numeral s in units of 10^-k, for k no less than the
\* number of its fractional digits.
Scaled(s, k) ==
    (IF s[1] = "-" THEN -1 ELSE 1)
    * (DigitsValue(IntPart(s)) * Pow10(k)
       + DigitsValue(FracPart(s)) * Pow10(k - Len(FracPart(s))))

Sign(n) == IF n < 0 THEN -1 ELSE IF n > 0 THEN 1 ELSE 0

\* The order of two numerals by numeric value.
NumCmp(a, b) ==
    LET k == IF Len(FracPart(a)) > Len(FracPart(b))
             THEN Len(FracPart(a)) ELSE Len(FracPart(b))
    IN Sign(Scaled(a, k) - Scaled(b, k))

\* C8 as stated: two records that are numerals of different numeric value
\* are ordered by linecomp exactly as their values are.
C8_NumeralsByValue ==
    result # <<>> =>
        \A i \in 1..3, j \in 1..3 :
            (IsNumeral(args[i]) /\ IsNumeral(args[j])
                /\ NumCmp(args[i], args[j]) # 0)
                => result[<<i, j>>] = NumCmp(args[i], args[j])

\* A record of one field with no terminator.
IsField(s) == \A k \in DOMAIN s : s[k] \notin {"\t", "\n"}

\* C9 as stated: when at least one of two fields is not a numeral,
\* linecomp orders them as the character-code comparison of their text
\* does; so 42 is less than \N.
C9_NonNumeralLexicographic ==
    result # <<>> =>
        \A i \in 1..3, j \in 1..3 :
            (IsField(args[i]) /\ IsField(args[j])
                /\ (~IsNumeral(args[i]) \/ ~IsNumeral(args[j])))
                => result[<<i, j>>] = StrCmp(args[i], args[j])

\* The order test_linecomp_by_sorting expects.
expected ==
    << join(<<<<>>, NULL, NULL>>),
       join(<<NULL, <<>>, NULL>>),
       join(<<NULL, <<"-", ".", "5", "2">>, <<"b", "a", "z">>>>),
       join(<<NULL, <<"-", ".", "4">>, <<"f", "o", "o">>>>),
       join(<<NULL, <<".", "4", "2">>, <<"b", "a", "r">>>>),
       join(<<NULL, <<"4", "2">>, NULL>>),
       join(<<NULL, NULL, <<>>>>),
       join(<<NULL, NULL, NULL>>),
       join(<<NULL, <<"f", "o", "o">>, <<".", "4", "2">>>>) >>

\* C10 as stated: sorting the nine records of the fixture with linecomp as
\* the key yields the documented order.
C10_FixtureOrder ==
    (args = unsorted /\ result # <<>>) => result = expected

\* ------------------------------------------------------------------------
\* More claims about linecomp (SpecCmp)
\* ------------------------------------------------------------------------

\* What may follow a field: nothing, a line terminator or a tab.
FieldEnds == { <<>>, <<"\n">>, <<"\t">> }

\* Record b is record a with ".0" put behind its numeral, a being a numeral
\* without decimal point followed by the field end t.
ZeroFractionOf(a, b, t) ==
    /\ Len(a) > Len(t)
    /\ SubSeq(a, Len(a) - Len(t) + 1, Len(a)) = t
    /\ IsNumeral(SubSeq(a, 1, Len(a) - Len(t)))
    /\ Dots(SubSeq(a, 1, Len(a) - Len(t))) = {}
    /\ b = SubSeq(a, 1, Len(a) - Len(t)) \o <<".", "0">> \o t

\* C11 as stated: a numeral without fractional part and the same numeral
\* written with the fractional part .0 compare equal, both ways round, at
\* the end of the string as well as before a tab or a line terminator.
C11_ZeroFractionEqual ==
    result # <<>> =>
        \A i \in 1..3, j \in 1..3 :
            (\E t \in FieldEnds : ZeroFractionOf(args[i], args[j], t))
                => (result[<<i, j>>] = 0 /\ result[<<j, i>>] = 0)

\* C12 as stated: an empty field compares less than the NULL token \N, and
\* the NULL token compares less than every field that is a numeral,
\* negative or positive.
C12_EmptyNullNumeral ==
    result # <<>> =>
        \A i \in 1..3, j \in 1..3 :
            /\ (args[i] = <<>> /\ args[j] = NULL) => result[<<i, j>>] = -1
            /\ (args[i] = NULL /\ IsNumeral(args[j])) => result[<<i, j>>] = -1

\* C13: linecomp terminates with -1, 0 or 1 on every pair of strings,
\* malformed numerals included: it never raises its RuntimeError, its cursors
\* never leave the strings (so no index is out of range), and every pass of
\* its main loop that is followed by another one has moved a cursor forward.
C13_TerminatesWithoutError ==
    /\ [](/\ result.at # "raise"
          /\ result.p1 \in 0..Len(args[1])
          /\ result.p2 \in 0..Len(args[2])
          /\ result.at = "return" => result.val \in {-1, 0, 1})
    /\ [][ (result.at = "while" /\ result'.at = "while")
              => (/\ result'.p1 >= result.p1
                  /\ result'.p2 >= result.p2
                  /\ result'.p1 > result.p1 \/ result'.p2 > result.p2) ]_vars
    /\ <>(result.at = "return")

\* C13 witness: a comparison of two malformed numerals that shared a sign and
\* a decimal point returned after more than one pass.
C13_Witness ==
    /\ result.at = "return"
    /\ result.prev_p1 >= 0
    /\ args[1] = <<"-", ".">>
    /\ args[2] = <<"-", ".">>

\* ------------------------------------------------------------------------
\* More claims about one MergeSort (Spec)
\* ------------------------------------------------------------------------

\* The sizes of the lines of a buffer, added up.
RECURSIVE SumSizes(_)
SumSizes(buffer) ==
    IF buffer = <<>> THEN 0
    ELSE getsizeof_str(Head(buffer)) + SumSizes(Tail(buffer))

\* The memory estimate of a buffer: the size of the list plus the size of
\* every line in it.
Estimate(buffer) == getsizeof_list(buffer) + SumSizes(buffer)

\* The line an append call has just added to the appended ones.
LastAppended(i) == hist'[i].appended[Len(hist'[i].appended)]

\* The lines held by a partition file, in file order.
RECURSIVE LinesOfData(_)
LinesOfData(data) ==
    IF data = <<>> THEN <<>>
    ELSE <<decode(Slice(data, 0, LineEnd(data, 0)))>>
         \o LinesOfData(Slice(data, LineEnd(data, 0), Len(data)))

\* Every line of s is a digit and a line feed.
AllShort(s) == \A k \in DOMAIN s : Len(s[k]) = 2

\* C14: an append before the first pull flushes exactly when the estimate of
\* the buffer with the new line in it is at or above the ceiling; below it
\* the line just joins the buffer.  With the ceiling 174, which two short
\* lines reach and one does not, three appended short lines leave one
\* partition with the first two lines sorted and the third in the buffer.
C14_FlushAtCeiling ==
    /\ [][ \A i \in DOMAIN hist :
             (AppendStep(i) /\ ~hist[i].pulled) =>
                IF Estimate(Append(sorter[i].buffer, LastAppended(i)))
                       >= sorter[i].max_memory
                THEN /\ sorter'[i].buffer = <<>>
                     /\ Len(sorter'[i].partitions) = Len(sorter[i].partitions) + 1
                ELSE /\ sorter'[i].buffer = Append(sorter[i].buffer, LastAppended(i))
                     /\ sorter'[i].partitions = sorter[i].partitions ]_vars
    /\ [](\A i \in DOMAIN hist :
            ( /\ sorter[i].max_memory = JUST_BELOW_TWO_SHORT_LINES
              /\ ~hist[i].pulled
              /\ Len(hist[i].appended) = 3
              /\ AllShort(hist[i].appended) )
            => /\ Len(sorter[i].partitions) = 1
               /\ LinesOfData(sorter[i].partitions[1].data)
                     = sort_lines(SubSeq(hist[i].appended, 1, 2))
               /\ sorter[i].buffer = <<hist[i].appended[3]>>)

\* C14 witness: the lines 2, 1, 2 appended under the ceiling 174: one
\* partition holding 1, 2 and the buffer holding the third line.
C14_Witness ==
    \E i \in DOMAIN hist :
        /\ sorter[i].max_memory = JUST_BELOW_TWO_SHORT_LINES
        /\ ~hist[i].pulled
        /\ hist[i].appended = << <<"2", "\n">>, <<"1", "\n">>, <<"2", "\n">> >>
        /\ Len(sorter[i].partitions) = 1
        /\ sorter[i].partitions[1].data = <<49, 10, 50, 10>>
        /\ sorter[i].buffer = << <<"2", "\n">> >>

\* The estimate stayed below the ceiling of object i after every append so
\* far: with no flush the buffer after k appends is the first k lines.
NeverReached(i) ==
    \A k \in 1..Len(hist[i].appended) :
        Estimate(SubSeq(hist[i].appended, 1, k)) < sorter[i].max_memory

\* C15: while the estimate has never reached the ceiling there is no
\* partition - not after the constructor, not after an append, not after a
\* pull - and the drain runs over the buffer sorted in memory: the returned
\* records are the first ones of the sorted buffer.
C15_NoSpillNoPartition ==
    \A i \in DOMAIN hist :
        NeverReached(i) =>
            /\ sorter[i].partitions = <<>>
            /\ sorter[i].buffer = hist[i].appended
            /\ hist[i].pulled =>
                  /\ sorter[i].iterating.kind = "list"
                  /\ sorter[i].iterating.items = sort_lines(hist[i].appended)
                  /\ hist[i].returned
                        = SubSeq(sort_lines(hist[i].appended), 1, Len(hist[i].returned))
            /\ hist[i].exhausted => hist[i].returned = sort_lines(hist[i].appended)

\* C15 witness: three lines appended out of order under a ceiling of 174 or
\* more that they never reached, drained to exhaustion with no partition.
C15_Witness ==
    \E i \in DOMAIN hist :
        /\ NeverReached(i)
        /\ hist[i].exhausted
        /\ Len(hist[i].appended) >= 3
        /\ hist[i].returned # hist[i].appended
        /\ sorter[i].partitions = <<>>

\* The sequence is in comparator order: no record compares greater than the
\* one behind it.
IsSorted(s) ==
    \A k \in 1..(Len(s) - 1) : linecomp(s[k], s[k + 1]) <= 0

NextLine == sql_readline(args.sql, feed.pos)

\* The rows of the COPY block the splitter is in, up to the read position:
\* the lines after the last COPY header.
BlockRows ==
    LET heads == { p \in 1..feed.pos : COPY_RE(args.sql[p]) }
        head  == CHOOSE p \in heads : \A q \in heads : q <= p
    IN  [k \in 1..(feed.pos - head) |-> args.sql[head + k]]

\* C17: in a COPY block every pass of the splitter that reads a row appends
\* that row, once, to the sorter and reads on with the next line; the pass
\* that reads the terminator drains the sorter, writing the block's rows in
\* sorted order and the terminator after them to the current output file,
\* and only then is the block left.
C17_RowsAppendedThenDrained ==
    [][ sorter # None =>
          IF NextLine # Terminator
          THEN /\ sorter' = append(sorter, NextLine)
               /\ feed'.pos = feed.pos + 1
               /\ result'.files = result.files
          ELSE /\ sorter' = None
               /\ feed'.pos = feed.pos + 1
               /\ result'.files =
                    [result.files EXCEPT ![result.output] =
                        @ \o Concat(sort_lines(BlockRows)) \o Terminator] ]_vars

\* The output files the splitter is to leave for the dump made of the
\* prologue pre, one table-data section with the given rows and the
\* epilogue post.
ThreeFiles(pre, rows, post) ==
    LET data == DataFileName(1, <<"p", "u", "b", "l", "i", "c">>,
                             <<"t", "a", "b", "l", "e", "1">>)
    IN  [n \in {PrologueName, data, EpilogueName(9999)} |->
           IF n = PrologueName THEN Concat(pre)
           ELSE IF n = data
           THEN Concat(<< <<"\n">>, DataCommentLine, <<"\n">>, CopyLine >>
                       \o sort_lines(rows) \o << Terminator >>)
           ELSE Concat(post)]

\* The epilogues whose lines all belong in the epilogue file.
PlainEpilogues == { << <<"\n">>, EpilogueLine >> }

\* The ways to read the dump as a prologue, one table-data section with rows
\* and an epilogue.
DumpParts ==
    { parts \in (Prologues \ {<<>>}) \X (SeqsUpTo(Lines, MaxRows) \ {<<>>})
                    \X PlainEpilogues :
        args.sql = parts[1] \o Section(parts[2]) \o parts[3] }

\* The output files are the three the dump calls for.
ThreeFilesWritten ==
    \A parts \in DumpParts :
        result.files = ThreeFiles(parts[1], parts[2], parts[3])

\* C18: for a dump made of a prologue, one table-data section and an
\* epilogue, split_sql_file returns, and by then the output files are
\* exactly 0000_prologue.sql with the prologue, 0001_public.table1.sql with
\* the section's leading lines, COPY header, sorted rows and terminator, and
\* 9999_epilogue.sql with the epilogue.
C18_ThreeFilesThenReturns ==
    <>(DumpParts # {} => result.at = "return" /\ ThreeFilesWritten)

\* ------------------------------------------------------------------------
\* Claims about memory_size (SpecSize)
\* ------------------------------------------------------------------------

\* The text after the number is nothing, or one of the units k, m, g, in
\* either case, alone or followed by b or ib (b alone, for bytes, is let
\* pass as well).
Recognised(tail) ==
    lower(tail) \in {<<>>, <<"b">>}
                    \cup { <<u>> \o e : u \in {"k", "m", "g"},
                           e \in {<<>>, <<"b">>, <<"i", "b">>} }

\* C19: memory_size raises ValueError for every size whose text after the
\* number is not a recognised unit; it does not return a value computed from
\* the number alone.
C19_UnknownUnitRaises ==
    (result # None /\ ~Recognised(feed.tail)) => result = ValueError

\* 1024 to the power k.
RECURSIVE Pow1024(_)
Pow1024(k) == IF k = 0 THEN 1 ELSE 1024 * Pow1024(k - 1)

\* The power of 1024 the tail stands for: none 0, k 1, m 2, g 3.
UnitPower(tail) ==
    IF tail = <<>> THEN 0
    ELSE CASE Lower(tail[1]) = "k" -> 1
           [] Lower(tail[1]) = "m" -> 2
           [] Lower(tail[1]) = "g" -> 3
           [] OTHER -> 0

\* The number is digits with at most one point, and its product with the
\* unit, counted in 10^-f for its f digits after the point, is within the
\* integers at hand.
SmallProduct ==
    /\ IsNumeral(feed.number)
    /\ Recognised(feed.tail)
    /\ Scaled(feed.number, Len(FracPart(feed.number)))
           <= 2147483647 \div Pow1024(UnitPower(feed.tail))

\* The sizes the claim names, with what memory_size is to give for them.
SizeExamples ==
    { << <<"1", "k">>, <<"1", "0", "2", "4">> >>,
      << <<"1", ".", "5", "M">>, <<"1", "5", "7", "2", "8", "6", "4">> >>,
      << <<"2", "0", "G", "B">>,
         <<"2", "1", "4", "7", "4", "8", "3", "6", "4", "8", "0">> >>,
      << <<"1", ".", "5">>, <<"1">> >>,
      << <<"1", "0", "0", "_", "0", "0", "0", "K">>,
         <<"1", "0", "2", "4", "0", "0", "0", "0", "0">> >> }

\* C20: memory_size returns the number times the unit's power of 1024 (no
\* unit 1, k 2^10, m 2^20, g 2^30), whatever the case of the unit, cut
\* down to an integer; "1k" gives 1024, "1.5M" 1572864, "20GB" 21474836480,
\* "1.5" 1 and "100_000K" 102400000.
C20_NumberTimesUnit ==
    result # None =>
        /\ \A ex \in SizeExamples :
              args = ex[1] => result = [kind |-> "int", digits |-> ex[2]]
        /\ SmallProduct =>
              /\ result.kind = "int"
              /\ DigitsValue(result.digits)
                   = (Scaled(feed.number, Len(FracPart(feed.number)))
                        * Pow1024(UnitPower(feed.tail)))
                     \div Pow10(Len(FracPart(feed.number)))

\* A size with a fraction and an upper-case unit has been parsed.
C20_Witness ==
    /\ feed.number = <<"1", ".", "5">>
    /\ feed.tail = <<"M">>
    /\ result # None

\* ------------------------------------------------------------------------
\* Claims about the life of a MergeSort (SpecLife)
\* ------------------------------------------------------------------------

ChunkFile(kind) ==
    CASE kind = "table1" ->
        <<"p", "u", "b", "l", "i", "c", ".", "t", "a", "b", "l", "e",
          "1", ".", "T", "A", "B", "L", "E">>
      [] kind = "table2" ->
        <<"p", "u", "b", "l", "i", "c", ".", "t", "a", "b", "l", "e",
          "2", ".", "T", "A", "B", "L", "E">>
      [] kind = "no_schema" ->
        <<"n", "o", "_", "s", "c", "h", "e", "m", "a", ".", "t", "_",
          "3", ".", "T", "A", "B", "L", "E">>
      [] kind = "function" ->
        <<"p", "u", "b", "l", "i", "c", ".", "f", ".", "F", "U", "N",
          "C", "T", "I", "O", "N">>

\* The chunks of the dump that cannot be identified.
Unidentified == { k \in DOMAIN feed : feed[k] = "unidentified" }

\* C22: when a chunk cannot be identified the schema splitter skips it with
\* exactly one warning and goes on: it returns, and every identifiable chunk
\* of the dump, those after the unidentified one included, is in its own
\* <schema>.<name>.<type> file.
C22_SkipsAndContinues ==
    result.at # "for" =>
        /\ result.at = "return"
        /\ Len(result.warnings) = Cardinality(Unidentified)
        /\ \A k \in DOMAIN feed :
              feed[k] \notin {"unidentified", "id"}
                  => ChunkFile(feed[k]) \in DOMAIN result.files

\* ------------------------------------------------------------------------
\* Claims about flushes (SpecFlush)
\* ------------------------------------------------------------------------

\* The step is an append that reaches the ceiling: the estimate of the buffer
\* with the new line in it is at or above max_memory.
Spilled ==
    /\ hist'[1].last = [op |-> "append", res |-> "None"]
    /\ Estimate(Append(sorter[1].buffer, LastAppended(1))) >= sorter[1].max_memory

\* The lines the buffer held when the step's flush ran: the buffer, with
\* the appended line behind it if the step is an append.
Flushed ==
    IF hist'[1].last.op = "append"
    THEN Append(sorter[1].buffer, LastAppended(1))
    ELSE sorter[1].buffer

\* The records of s, each as often as in s, in comparator order.
SortedBagOf(s, t) == SameBag(s, t) /\ \A k \in 1..(Len(s) - 1) : linecomp(s[k], s[k + 1]) <= 0

\* C23: a flush of a non-empty buffer - the explicit one and the one an
\* append runs at the ceiling - adds exactly one partition, which holds the
\* buffer's records in comparator order, leaves the earlier partitions as
\* they were, empties the buffer and sets the estimate to the size of the
\* empty list, which is not zero.  With the ceiling 174, three short lines
\* appended and then a flush leave exactly two partitions: the first two
\* lines sorted, and the third line alone.
C23_FlushFrame ==
    /\ [][ ( \/ hist'[1].last.op = "_flush" /\ sorter[1].buffer # <<>>
             \/ Spilled )
           => /\ Len(sorter'[1].partitions) = Len(sorter[1].partitions) + 1
              /\ SubSeq(sorter'[1].partitions, 1, Len(sorter[1].partitions))
                    = sorter[1].partitions
              /\ SortedBagOf(LinesOfData(
                     sorter'[1].partitions[Len(sorter'[1].partitions)].data),
                     Flushed)
              /\ sorter'[1].buffer = <<>>
              /\ sorter'[1].memory_counter = getsizeof_list(<<>>)
              /\ sorter'[1].memory_counter > 0 ]_vars
    /\ []( ( /\ sorter[1].max_memory = JUST_BELOW_TWO_SHORT_LINES
             /\ result = <<"append", "append", "append", "_flush">>
             /\ ~hist[1].pulled
             /\ Len(hist[1].appended) = 3
             /\ AllShort(hist[1].appended) )
           => /\ Len(sorter[1].partitions) = 2
              /\ LinesOfData(sorter[1].partitions[1].data)
                    = sort_lines(SubSeq(hist[1].appended, 1, 2))
              /\ LinesOfData(sorter[1].partitions[2].data)
                    = <<hist[1].appended[3]>> )

\* C23 witness: 2, 1, 2 appended under the ceiling 174 and then flushed.
C23_Witness ==
    /\ sorter[1].max_memory = JUST_BELOW_TWO_SHORT_LINES
    /\ result = <<"append", "append", "append", "_flush">>
    /\ ~hist[1].pulled
    /\ hist[1].appended = << <<"2", "\n">>, <<"1", "\n">>, <<"2", "\n">> >>
    /\ Len(sorter[1].partitions) = 2


\* ------------------------------------------------------------------------
\* Claims about the partitions (SpecFlush)
\* ------------------------------------------------------------------------

\* The step is a flush that finds the buffer empty: m._flush() itself, or the
\* flush of the __next__ that starts the merge.
EmptyFlush ==
    /\ sorter[1].buffer = <<>>
    /\ \/ hist'[1].last.op = "_flush"
       \/ /\ hist'[1].last.op = "__next__"
          /\ hist'[1].builds = hist[1].builds + 1
          /\ sorter[1].partitions # <<>>

\* C24: the constructor leaves no partition; in every state each partition
\* holds at least one line and its lines are in comparator order; no step
\* (append, flush or read of the merge) removes a partition or changes what
\* one holds; and a flush that finds the buffer empty adds no partition.
C24_PartitionsFixed ==
    /\ sorter[1].partitions = <<>>
    /\ [](\A p \in DOMAIN sorter[1].partitions :
             /\ LinesOfData(sorter[1].partitions[p].data) # <<>>
             /\ IsSorted(LinesOfData(sorter[1].partitions[p].data)))
    /\ [][ /\ \A p \in DOMAIN sorter[1].partitions :
                /\ p \in DOMAIN sorter'[1].partitions
                /\ sorter'[1].partitions[p].data = sorter[1].partitions[p].data
           /\ EmptyFlush => Len(sorter'[1].partitions) = Len(sorter[1].partitions)
         ]_vars

\* Two partitions written by explicit flushes with a flush of the empty
\* buffer between them, an unsorted pair in the second, all read by the merge.
C24_Witness ==
    /\ result = <<"append", "_flush", "_flush", "append", "append", "_flush">>
    /\ hist[1].appended = << <<"2", "\n">>, <<"1", "0", "\n">>, <<"1", "\n">> >>
    /\ Len(sorter[1].partitions) = 2
    /\ hist[1].exhausted
    /\ Len(hist[1].returned) = 3


\* ------------------------------------------------------------------------
\* Claims about where the records are held (Spec)
\* ------------------------------------------------------------------------

\* The lines of all the partitions, one partition after the other.
RECURSIVE PartitionLines(_)
PartitionLines(partitions) ==
    IF partitions = <<>> THEN <<>>
    ELSE LinesOfData(partitions[1].data) \o PartitionLines(Tail(partitions))

\* The step is the __next__ that starts a merge: it assigned _iterating with
\* at least one partition on disk.
MergeStarts ==
    /\ hist'[1].last.op = "__next__"
    /\ hist'[1].builds = hist[1].builds + 1
    /\ sorter[1].partitions # <<>>

\* C25: before the first pull the appended records are exactly the records
\* of the buffer and of the partitions together, each held once.  The
\* __next__ that starts a merge leaves the buffer empty and all appended
\* records in the partitions, and has read from every partition its first
\* line and nothing more, so every partition was rewound to its start; from
\* then on no partition is read backwards.
C25_HeldOnceThenMerged ==
    /\ [](~Truthy(sorter[1].iterating)
             => SameBag(hist[1].appended,
                        sorter[1].buffer \o PartitionLines(sorter[1].partitions)))
    /\ [][ MergeStarts
             => /\ sorter'[1].buffer = <<>>
                /\ SameBag(hist[1].appended, PartitionLines(sorter'[1].partitions))
                /\ \A p \in DOMAIN sorter'[1].partitions :
                      sorter'[1].partitions[p].pos
                          = LineEnd(sorter'[1].partitions[p].data, 0)
                /\ hist'[1].last.res = "line" ]_vars
    /\ [][ (Truthy(sorter[1].iterating) /\ sorter[1].iterating.kind = "merge")
             => \A p \in DOMAIN sorter[1].partitions :
                   sorter'[1].partitions[p].pos >= sorter[1].partitions[p].pos ]_vars

\* C25 witness: 2 and 1 spilled under the ceiling 174, a third line in the
\* buffer when the first pull starts the merge; the pull returned 1 and left
\* the two-line partition after its first line.
C25_Witness ==
    /\ sorter[1].max_memory = JUST_BELOW_TWO_SHORT_LINES
    /\ hist[1].appended = << <<"2", "\n">>, <<"1", "\n">>, <<"1", "0", "\n">> >>
    /\ hist[1].returned = << <<"1", "\n">> >>
    /\ Len(sorter[1].partitions) = 2
    /\ sorter[1].partitions[1].pos = 2
    /\ sorter[1].buffer = <<>>


\* ------------------------------------------------------------------------
\* Claims about the memory estimate (SpecFlush)
\* ------------------------------------------------------------------------

\* The step is an append that returned: the line joined the appended lines.
AppendReturned ==
    /\ hist'[1].last = [op |-> "append", res |-> "None"]
    /\ Len(hist'[1].appended) = Len(hist[1].appended) + 1

\* C26: in every state between calls the memory estimate is the size of the
\* buffer list plus the sizes of the lines in the buffer.  With a ceiling
\* above the size of the empty list, the estimate is below the ceiling when
\* an append returns, and a line that reaches the ceiling on its own in an
\* empty buffer is at once the only record of a new partition.
C26_EstimateOfBuffer ==
    /\ [](sorter[1].memory_counter = Estimate(sorter[1].buffer))
    /\ [][ (AppendReturned /\ sorter[1].max_memory > getsizeof_list(<<>>))
             => /\ sorter'[1].memory_counter < sorter[1].max_memory
                /\ ( /\ sorter[1].buffer = <<>>
                     /\ Estimate(<<LastAppended(1)>>) >= sorter[1].max_memory )
                   => /\ Len(sorter'[1].partitions) = Len(sorter[1].partitions) + 1
                      /\ LinesOfData(sorter'[1].partitions[
                             Len(sorter'[1].partitions)].data) = <<LastAppended(1)>>
                      /\ sorter'[1].buffer = <<>> ]_vars

\* C26 witness: under the ceiling a single short line reaches, 10 was
\* appended after 2 and each is a partition of its own.
C26_Witness ==
    /\ sorter[1].max_memory = getsizeof_list(<<<<>>>>) + getsizeof_str(<<"1", "\n">>)
    /\ hist[1].last = [op |-> "append", res |-> "None"]
    /\ hist[1].appended = << <<"2", "\n">>, <<"1", "0", "\n">> >>
    /\ Len(sorter[1].partitions) = 2
    /\ sorter[1].memory_counter = getsizeof_list(<<>>)


\* ------------------------------------------------------------------------
\* Claims about records that compare equal (Spec)
\* ------------------------------------------------------------------------

\* The records of s that compare equal to x, in the order they have in s.
EqualRun(s, x) == SelectSeq(s, LAMBDA y : linecomp(x, y) = 0)

\* s is the beginning of t.
IsPrefix(s, t) == Len(s) <= Len(t) /\ SubSeq(t, 1, Len(s)) = s

C28_ReturnsAtEndOfFile == <>(result.at = "return" /\ result.buf = <<>>)

====
